---- MODULE Spec2Model ----
(***************************************************************************)
(* The accounts page of one-proxy (src/src/pages/Accounts.tsx, the variant *)
(* of lines 602-2273): the React state of the Accounts component, the      *)
(* RemoteService behind `invoke`, and every asynchronous continuation that *)
(* is waiting for a RemoteService answer.                                  *)
(*                                                                         *)
(* A function of a React component reads the state of the render that      *)
(* created it.  Every continuation and every timer callback therefore      *)
(* carries the render's values it will read (its closure); only the        *)
(* functional updaters (prev => ...) see the state current at the time     *)
(* they run.  A step of the model is one run of JavaScript to completion:  *)
(* a click handler up to its first await, or the code that follows an      *)
(* answer up to the next await, followed by the effects React runs for the *)
(* state the step has set.                                                 *)
(***************************************************************************)
EXTENDS Bags, FiniteSets, Integers, Sequences, TLC

None == "none"

\* The user clicks nothing and no timer ticks while this many continuations
\* wait for RemoteService; the answers themselves are never held back.
MaxTasks == 3

\* The most startLogin calls of one behaviour.
MaxLogins == 2

\* The longest text typed in the project prompt.
MaxInput == 2

\* The delays of the page's timers, in ms: lines 753, 972 and 929.
PollIntervalMs == 2000
LoginTimeoutMs == 60000
ServerSettleMs == 500

VARIABLES
    srvAccounts,            \* RemoteService: the account list get_auth_accounts returns
    srvProjects,            \* RemoteService: account id -> <<project id set by set_gemini_project_id>>, or <<>>
    accounts,               \* useState accounts
    loading,                \* useState loading: the rows are rendered only when false
    loginInProgress,        \* useState loginInProgress (None for null)
    showAddMenu,            \* useState showAddMenu
    showProjectPrompt,      \* useState showProjectPrompt
    projectIdInput,         \* useState projectIdInput, a sequence of characters
    pendingGeminiAccountId, \* useState pendingGeminiAccountId (None for null)
    selectedIds,            \* useState selectedIds, in insertion order
    quotaData,              \* the four use-State *QuotaData records, by family
    quotaLoading,           \* the four use-State *QuotaLoading records, by family
    tasks,                  \* bag of the continuations waiting for RemoteService
    pollTimer,              \* the setInterval of the login effect, if installed: <<timer>>
    loginTimeouts,          \* bag of the pending 60 s setTimeout callbacks of startLogin
    quotaTimers,            \* bag of the installed auto-refresh setInterval timers
    runs,                   \* the batch runs started so far
    logins,                 \* the number of startLogin calls made so far
    showApiKeyModal,        \* useState showApiKeyModal
    apiKeyProvider,         \* useState apiKeyProvider (None for null)
    apiKeySaving,           \* useState apiKeySaving
    event                   \* what the last step showed: its alert(), the answer it merged

vars == <<srvAccounts, srvProjects, accounts, loading, loginInProgress, showAddMenu,
          showProjectPrompt, projectIdInput, pendingGeminiAccountId, selectedIds,
          quotaData, quotaLoading, tasks, pollTimer, loginTimeouts, quotaTimers,
          runs, logins, showApiKeyModal, apiKeyProvider, apiKeySaving, event>>

----------------------------------------------------------------------------
(* What a step shows to the user or to an observer *)

Quiet == [step |-> None, alert |-> None]

\* alert(message) in the handler `step`.
Alert(step, message) == [step |-> step, alert |-> message]

----------------------------------------------------------------------------
(* Helpers on sequences and bags *)

Range(s) == {s[i] : i \in DOMAIN s}

IdsOf(list) == {list[i].id : i \in DOMAIN list}

One(t) == SetToBag({t})

\* The calls of one operation that have not returned yet.
Outstanding(op, b) ==
    BagCardinality([t \in {u \in BagToSet(b) : u.op = op} |-> CopiesIn(t, b)])

----------------------------------------------------------------------------
(* Providers and families *)

Families == {"antigravity", "codex", "gemini", "kiro"}

\* A dispatch whose last branch takes every provider left.
FamilyOrKiro(provider) ==
    IF provider = "antigravity" THEN "antigravity"
    ELSE IF provider = "openai" \/ provider = "codex" THEN "codex"
    ELSE IF provider = "gemini" \/ provider = "google" THEN "gemini"
    ELSE "kiro"

\* The dispatch of fetchAccounts and refreshAllQuotas on account.provider.
FamilyOf(provider) ==
    IF provider = "antigravity" THEN "antigravity"
    ELSE IF provider = "openai" \/ provider = "codex" THEN "codex"
    ELSE IF provider = "gemini" \/ provider = "google" THEN "gemini"
    ELSE IF provider = "kiro" THEN "kiro"
    ELSE None

\* The accounts RemoteService may ever hold: id and raw provider tag.
Directory ==
    { [id |-> "g1", provider |-> "gemini"],
      [id |-> "g2", provider |-> "gemini"],
      [id |-> "a1", provider |-> "antigravity"],
      [id |-> "k1", provider |-> "kimi"],
      [id |-> "k2", provider |-> "glm"],
      [id |-> "k3", provider |-> "kimi"] }

AccountIds == {d.id : d \in Directory}

ProviderOfId(id) == (CHOOSE d \in Directory : d.id = id).provider

Account(d, en) == [id |-> d.id, provider |-> d.provider, enabled |-> en]

----------------------------------------------------------------------------
(* The render's values a function created by that render reads *)

Closure(accs, login, loadingNow) ==
    [accounts |-> accs, login |-> login, loading |-> loadingNow]

Render == Closure(accounts, loginInProgress, quotaLoading)

NoLoading == [f \in Families |-> {}]
\* A slot holds, for every id, <<>> (no entry) or <<snapshot>>.
NoData == [f \in Families |-> [id \in AccountIds |-> <<>>]]

\* What a fetch_<family>_quota call may return.
QuotaSnapshots ==
    { [last_updated |-> 1, is_error |-> FALSE],
      [last_updated |-> 2, is_error |-> TRUE, error_message |-> "e"] }

----------------------------------------------------------------------------
(* RemoteService calls: the continuation each leaves waiting *)

\* The fetchAccounts calls that no batch run waits for.
NoRun == [id |-> 0, order |-> <<>>, enabled |-> FALSE, applied |-> <<>>]

\* fetchAccounts up to its await: prevIds is computed from the closure's accounts.
FetchAccountsCall(cl, then, run) ==
    [op |-> "get_auth_accounts", cl |-> cl, then |-> then, run |-> run]

\* loadCachedQuotas up to its await.
CachedQuotasCall == [op |-> "get_cached_quotas"]

\* fetchQuota / fetchCodexQuota / fetchGeminiQuota / fetchKiroQuota after the guard.
QuotaCall(family, id) == [op |-> "fetch_quota", family |-> family, id |-> id]

\* setupAutoRefresh up to its await; cleaned says whether the cleanup of the
\* effect that started it has already run (its quotaInterval was still null).
SettingsCall(cl) == [op |-> "get_settings", cl |-> cl, cleaned |-> FALSE]

Room(n) == BagCardinality(tasks) + n <= MaxTasks

\* Lines 2181-2215: the project prompt covers the page; nothing behind it can
\* be clicked.
Clickable == ~showProjectPrompt /\ ~showApiKeyModal

----------------------------------------------------------------------------
(* fetchQuota and its three siblings *)

\* The in-flight guard `if (quotaLoading[accountId]) return`, read in the
\* closure of the function that makes the call.
IsLoading(cl, family, id) == id \in cl.loading[family]

\* The accounts of `list` for which a call made from closure cl passes the guard.
ToFetch(cl, list) ==
    { a \in Range(list) :
        /\ FamilyOf(a.provider) # None
        /\ ~IsLoading(cl, FamilyOf(a.provider), a.id) }

\* setXQuotaLoading(prev => ({...prev, [accountId]: true})) for each call made.
LoadingAfterCalls(loadingNow, calls) ==
    [f \in Families |->
        loadingNow[f] \cup {a.id : a \in {c \in calls : FamilyOf(c.provider) = f}}]

RECURSIVE QuotaCalls(_)
\* One invoke("fetch_<family>_quota", {accountId}) per call made.
QuotaCalls(calls) ==
    IF calls = {} THEN EmptyBag
    ELSE LET a == CHOOSE x \in calls : TRUE
         IN  One(QuotaCall(FamilyOf(a.provider), a.id)) (+) QuotaCalls(calls \ {a})

----------------------------------------------------------------------------
(* The two effects, run by React after a step has set the state *)

\* Lines 746-758, deps [loginInProgress]: fetchAccounts() and loadCachedQuotas()
\* of the new render.
LoginEffectCalls(nl, ncl) ==
    IF nl = loginInProgress THEN EmptyBag
    ELSE One(FetchAccountsCall(ncl, "none", NoRun)) (+) One(CachedQuotasCall)

\* An effect whose cleanup never clears the interval: each run with a pending
\* login adds a timer to the ones already installed.
PollTimerKept(nl, ncl) ==
    IF nl = loginInProgress \/ nl = None THEN pollTimer
    ELSE Append(pollTimer, [cl |-> ncl, everyMs |-> PollIntervalMs])

\* Lines 751-757: the cleanup clears the interval, the new run installs one
\* (calling the new render's fetchAccounts) while a login is pending.
PollTimerAfter(nl, ncl) ==
    IF nl = loginInProgress THEN pollTimer
    ELSE IF nl # None THEN << [cl |-> ncl, everyMs |-> PollIntervalMs] >> ELSE <<>>

\* Lines 787-789, seen from a setupAutoRefresh that is still waiting: once the
\* cleanup has run, nothing will clear the interval it installs later.
MarkCleaned(b) ==
    LET live == {t \in BagToSet(b) : t.op = "get_settings" /\ ~t.cleaned}
    IN  IF live = {} THEN b
        ELSE LET t == CHOOSE x \in live : TRUE
             IN  (b (-) One(t)) (+) One([t EXCEPT !.cleaned = TRUE])

\* Lines 787-789: the cleanup clears the interval its own effect run installed.
ClearOwnTimer(timers) ==
    LET own == {q \in BagToSet(timers) : q.own}
    IN  IF own = {} THEN timers
        ELSE timers (-) One(CHOOSE x \in own : TRUE)

\* Lines 761-790, deps [accounts.length].
\* An effect that runs only when the list stops being empty.
AutoEffectFromEmpty(na, ncl, b) ==
    IF Len(accounts) = 0 /\ Len(na) > 0 THEN b (+) One(SettingsCall(ncl)) ELSE b

AutoEffectTasks(na, ncl, b) ==
    IF Len(na) = Len(accounts) THEN b
    ELSE IF Len(na) > 0 THEN MarkCleaned(b) (+) One(SettingsCall(ncl))
    ELSE MarkCleaned(b)

AutoEffectTimers(na) ==
    IF Len(na) = Len(accounts) THEN quotaTimers ELSE ClearOwnTimer(quotaTimers)

\* The state a step sets (na: accounts, nl: loginInProgress, nload: the quota
\* loading records, busy: loading, rest: the continuations left waiting by the
\* step itself), followed by the effects of the render that shows it; the
\* fetchAccounts of the login effect sets loading (line 819).
Commit(na, nl, nload, busy, rest) ==
    LET ncl == Closure(na, nl, nload)
        all == AutoEffectTasks(na, ncl, rest) (+) LoginEffectCalls(nl, ncl)
    IN  /\ accounts' = na
        /\ loading' = IF nl = loginInProgress THEN busy ELSE TRUE
        /\ loginInProgress' = nl
        /\ quotaLoading' = nload
        /\ tasks' = all
        /\ pollTimer' = PollTimerAfter(nl, ncl)
        /\ quotaTimers' = AutoEffectTimers(na)

----------------------------------------------------------------------------
(* fetchAccounts, refreshAllQuotas, handleRefresh *)

\* A diff that looks at the number of accounts only.
NewBySize(cl, result) ==
    IF Len(result) > Len(cl.accounts) THEN result ELSE <<>>

\* result.filter((account) => !prevIds.has(account.id))
NewAccounts(cl, result) ==
    SelectSeq(result, LAMBDA a : a.id \notin IdsOf(cl.accounts))

\* A fetchAccounts that leaves the login state alone.
LoginKept(cl, newAccounts) == loginInProgress

\* Lines 826-829: a fetch made by a render that was waiting for a login ends
\* the login when it sees a new account.
LoginAfterFetch(cl, newAccounts) ==
    IF cl.login # None /\ newAccounts # <<>> THEN None ELSE loginInProgress

\* The quota calls of lines 832-846 (new accounts) and, for handleRefresh and
\* handleImport, of refreshAllQuotas run right after in the same closure.
CallsAfterFetch(t, newAccounts) ==
    ToFetch(t.cl, newAccounts)
        \cup (IF t.then \in {"refresh", "import"} THEN ToFetch(t.cl, t.cl.accounts) ELSE {})

\* A batch run that leaves the selection as it finds it.
SelectionKept(t) == selectedIds

\* Lines 1223-1224 and 1237-1238: a batch run that waited for fetchAccounts
\* clears the selection; no other caller touches it.
SelectionAfterFetch(t) == IF t.then = "batch" THEN <<>> ELSE selectedIds

\* Lines 1023-1029 and 1047: handleSaveApiKey, once its fetchAccounts has
\* returned, calls closeApiKeyModal; no other caller touches the modal.
ModalAfterFetch(t) ==
    IF t.then = "apiKey"
    THEN showApiKeyModal' = FALSE /\ apiKeyProvider' = None /\ apiKeySaving' = FALSE
    ELSE UNCHANGED <<showApiKeyModal, apiKeyProvider, apiKeySaving>>

\* get_auth_accounts answers: the code of fetchAccounts after its await, then
\* the code of its caller that waited for it.
FetchAccountsOk(t) ==
    /\ t \in BagToSet(tasks) /\ t.op = "get_auth_accounts" /\ t.then # "startLogin"
    /\ LET newAccounts == NewAccounts(t.cl, srvAccounts)
           calls == CallsAfterFetch(t, newAccounts)
           cached == IF newAccounts # <<>> THEN One(CachedQuotasCall) ELSE EmptyBag
       IN  Commit(srvAccounts, LoginAfterFetch(t.cl, newAccounts),
                  LoadingAfterCalls(quotaLoading, calls), FALSE,
                  ((tasks (-) One(t)) (+) cached) (+) QuotaCalls(calls))
    /\ selectedIds' = SelectionAfterFetch(t)
    /\ event' = IF t.then = "batch"
                THEN [step |-> IF t.run.enabled THEN "handleBatchEnable" ELSE "handleBatchDisable",
                      alert |-> None, run |-> t.run]
                ELSE IF t.cl.login # None /\ NewAccounts(t.cl, srvAccounts) # <<>>
                THEN [step |-> "fetchAccounts", alert |-> None,
                      prevIds |-> IdsOf(t.cl.accounts)]
                ELSE Quiet
    /\ ModalAfterFetch(t)
    /\ UNCHANGED <<srvAccounts, srvProjects, showAddMenu, showProjectPrompt,
                   projectIdInput, pendingGeminiAccountId, quotaData,
                   loginTimeouts, runs, logins>>

\* A catch that empties the list.
AccountsCleared(t) == <<>>

\* Lines 847-849: the catch of fetchAccounts logs the error; setAccounts is
\* not called, the list stays as it was.
AccountsAfterFailure(t) == accounts

\* get_auth_accounts throws: caught in fetchAccounts (lines 847-849); the
\* caller that waited for it goes on all the same.
FetchAccountsFail(t) ==
    /\ t \in BagToSet(tasks) /\ t.op = "get_auth_accounts" /\ t.then # "startLogin"
    /\ LET calls == CallsAfterFetch(t, <<>>)
       IN  Commit(AccountsAfterFailure(t), loginInProgress,
                  LoadingAfterCalls(quotaLoading, calls), FALSE,
                  (tasks (-) One(t)) (+) QuotaCalls(calls))
    /\ selectedIds' = SelectionAfterFetch(t)
    /\ event' = IF t.then = "batch"
                THEN [step |-> IF t.run.enabled THEN "handleBatchEnable" ELSE "handleBatchDisable",
                      alert |-> None, run |-> t.run]
                ELSE Quiet
    /\ ModalAfterFetch(t)
    /\ UNCHANGED <<srvAccounts, srvProjects, showAddMenu, showProjectPrompt,
                   projectIdInput, pendingGeminiAccountId, quotaData,
                   loginTimeouts, runs, logins>>

\* handleRefresh (the refresh button): await fetchAccounts(); refreshAllQuotas().
HandleRefresh ==
    /\ Clickable
    /\ Room(1)
    /\ tasks' = tasks (+) One(FetchAccountsCall(Render, "refresh", NoRun))
    /\ loading' = TRUE
    /\ event' = Quiet
    /\ UNCHANGED <<srvAccounts, srvProjects, accounts, loginInProgress, showAddMenu,
                   showProjectPrompt, projectIdInput, pendingGeminiAccountId,
                   selectedIds, quotaData, quotaLoading, pollTimer, loginTimeouts,
                   quotaTimers, runs, logins,
                   showApiKeyModal, apiKeyProvider, apiKeySaving>>

\* The refresh button of one account's row: disabled while the render shows
\* the account as loading (lines 1699-1741), else fetch<Family>Quota(account.id).
ClickQuotaRefresh(a) ==
    /\ Clickable
    /\ ~loading
    /\ a \in Range(accounts)
    /\ a \in ToFetch(Render, accounts)
    /\ Room(1)
    /\ quotaLoading' = LoadingAfterCalls(quotaLoading, {a})
    /\ tasks' = tasks (+) QuotaCalls({a})
    /\ event' = Quiet
    /\ UNCHANGED <<srvAccounts, srvProjects, accounts, loading, loginInProgress, showAddMenu,
                   showProjectPrompt, projectIdInput, pendingGeminiAccountId,
                   selectedIds, quotaData, pollTimer, loginTimeouts, quotaTimers, runs,
                   logins,
                   showApiKeyModal, apiKeyProvider, apiKeySaving>>

\* An entry that keeps the fields of the previous entry the result lacks:
\* {...prev[accountId], ...result}.
EntryMerged(previous, result) ==
    IF previous = <<>> THEN << result >>
    ELSE << [k \in DOMAIN previous[1] \cup DOMAIN result |->
               IF k \in DOMAIN result THEN result[k] ELSE previous[1][k]] >>

\* Line 1091 (and its siblings): {...prev, [accountId]: result}.
EntryAfterFetch(previous, result) == << result >>

\* A slot set without the spread of prev: {[accountId]: result}.
SlotWithoutSpread(slot, id, result) ==
    [x \in DOMAIN slot |-> IF x = id THEN << result >> ELSE <<>>]

\* Line 1091 (and its siblings): prev => ({...prev, [accountId]: result}).
SlotAfterFetch(slot, id, result) ==
    [slot EXCEPT ![id] = EntryAfterFetch(@, result)]

\* fetch_<family>_quota answers: lines 1091 and 1095 (and their siblings).
QuotaOk(t, result) ==
    /\ t \in BagToSet(tasks) /\ t.op = "fetch_quota"
    /\ quotaData' = [quotaData EXCEPT ![t.family] = SlotAfterFetch(@, t.id, result)]
    /\ quotaLoading' = [quotaLoading EXCEPT ![t.family] = @ \ {t.id}]
    /\ tasks' = tasks (-) One(t)
    /\ event' = [step |-> "fetchQuota", alert |-> None, id |-> t.id,
                 previous |-> quotaData[t.family][t.id], threw |-> FALSE]
    /\ UNCHANGED <<srvAccounts, srvProjects, accounts, loading, loginInProgress, showAddMenu,
                   showProjectPrompt, projectIdInput, pendingGeminiAccountId,
                   selectedIds, pollTimer, loginTimeouts, quotaTimers, runs, logins,
                   showApiKeyModal, apiKeyProvider, apiKeySaving>>

\* fetch_<family>_quota throws: lines 1092-1095 (and their siblings).
QuotaFail(t) ==
    /\ t \in BagToSet(tasks) /\ t.op = "fetch_quota"
    /\ quotaLoading' = [quotaLoading EXCEPT ![t.family] = @ \ {t.id}]
    /\ tasks' = tasks (-) One(t)
    /\ event' = [step |-> "fetchQuota", alert |-> None, id |-> t.id,
                 previous |-> quotaData[t.family][t.id], threw |-> TRUE]
    /\ UNCHANGED <<srvAccounts, srvProjects, accounts, loading, loginInProgress, showAddMenu,
                   showProjectPrompt, projectIdInput, pendingGeminiAccountId,
                   selectedIds, quotaData, pollTimer, loginTimeouts, quotaTimers, runs,
                   logins,
                   showApiKeyModal, apiKeyProvider, apiKeySaving>>

----------------------------------------------------------------------------
(* loadCachedQuotas *)

\* The persisted form of a snapshot: quota_data is <<"json", snapshot>> for the
\* JSON text of a snapshot, and <<"garbage">> for text JSON.parse rejects.
Serialize(snapshot) == <<"json", snapshot>>

\* JSON.parse(cache.quota_data): <<data>>, or <<>> when it throws.
JSONParse(text) == IF text[1] = "json" THEN <<text[2]>> ELSE <<>>

\* Lines 799-807: the slot a record goes to, by its raw provider tag.
CacheSlot(provider) ==
    IF provider = "antigravity" THEN "antigravity"
    ELSE IF provider = "codex" THEN "codex"
    ELSE IF provider = "gemini" THEN "gemini"
    ELSE IF provider = "kiro" THEN "kiro"
    ELSE None

\* A merge that drops the entry of a record it cannot parse.
MergeRecordDropping(old, f, cache) ==
    IF JSONParse(cache.quota_data) = <<>> THEN <<>>
    ELSE IF CacheSlot(cache.provider) = f THEN JSONParse(cache.quota_data)
    ELSE old

\* Lines 796-811 for one record: the entry of slot f for accountId afterwards.
MergeRecord(old, f, cache) ==
    IF JSONParse(cache.quota_data) = <<>> THEN old
    ELSE IF CacheSlot(cache.provider) = f THEN JSONParse(cache.quota_data)
    ELSE old

\* A load that sets each slot to the records of the answer, without the
\* spread of prev: the entries of the ids the answer lacks are gone.
MergeCachedReplacing(data, cached) ==
    [f \in Families |->
        [id \in AccountIds |->
            IF id \in DOMAIN cached THEN MergeRecord(data[f][id], f, cached[id])
            ELSE <<>>]]

\* Lines 796-811: every record of the answer, keyed by account id.
MergeCached(data, cached) ==
    [f \in Families |->
        [id \in AccountIds |->
            IF id \in DOMAIN cached THEN MergeRecord(data[f][id], f, cached[id])
            ELSE data[f][id]]]

\* get_cached_quotas answers with the map `cached`.
CachedOk(t, cached) ==
    /\ t \in BagToSet(tasks) /\ t.op = "get_cached_quotas"
    /\ quotaData' = MergeCached(quotaData, cached)
    /\ tasks' = tasks (-) One(t)
    /\ event' = [step |-> "loadCachedQuotas", alert |-> None, cached |-> cached]
    /\ UNCHANGED <<srvAccounts, srvProjects, accounts, loading, loginInProgress, showAddMenu,
                   showProjectPrompt, projectIdInput, pendingGeminiAccountId,
                   selectedIds, quotaLoading, pollTimer, loginTimeouts, quotaTimers,
                   runs, logins,
                   showApiKeyModal, apiKeyProvider, apiKeySaving>>

\* Lines 696-699 and 702: PROVIDER_ALIASES[provider] || provider.
ProviderAlias(provider) ==
    IF provider = "gemini" THEN "google"
    ELSE IF provider = "codex" THEN "openai"
    ELSE provider

\* A load whose first unparsable record ends the loop.
RECURSIVE MergeEntriesFatal(_, _)
MergeEntriesFatal(data, entries) ==
    IF entries = <<>> \/ JSONParse(Head(entries).cache.quota_data) = <<>> THEN data
    ELSE MergeEntriesFatal(
            [f \in Families |->
                [data[f] EXCEPT ![Head(entries).accountId] =
                                    MergeRecord(@, f, Head(entries).cache)]],
            Tail(entries))

\* Lines 796-811: the loop over Object.entries(cached), record after record
\* in the order of the answer, each in its own try.
RECURSIVE MergeEntries(_, _)
MergeEntries(data, entries) ==
    IF entries = <<>> THEN data
    ELSE MergeEntries(
            [f \in Families |->
                [data[f] EXCEPT ![Head(entries).accountId] =
                                    MergeRecord(@, f, Head(entries).cache)]],
            Tail(entries))

\* get_cached_quotas answers with the records `entries`, in their order.
CachedOkInOrder(t, entries) ==
    /\ t \in BagToSet(tasks) /\ t.op = "get_cached_quotas"
    /\ quotaData' = MergeEntries(quotaData, entries)
    /\ tasks' = tasks (-) One(t)
    /\ event' = [step |-> "loadCachedQuotas", alert |-> None, entries |-> entries]
    /\ UNCHANGED <<srvAccounts, srvProjects, accounts, loading, loginInProgress, showAddMenu,
                   showProjectPrompt, projectIdInput, pendingGeminiAccountId,
                   selectedIds, quotaLoading, pollTimer, loginTimeouts, quotaTimers,
                   runs, logins,
                   showApiKeyModal, apiKeyProvider, apiKeySaving>>

\* get_cached_quotas throws: lines 812-814.
CachedFail(t) ==
    /\ t \in BagToSet(tasks) /\ t.op = "get_cached_quotas"
    /\ tasks' = tasks (-) One(t)
    /\ event' = Quiet
    /\ UNCHANGED <<srvAccounts, srvProjects, accounts, loading, loginInProgress, showAddMenu,
                   showProjectPrompt, projectIdInput, pendingGeminiAccountId,
                   selectedIds, quotaData, quotaLoading, pollTimer, loginTimeouts,
                   quotaTimers, runs, logins,
                   showApiKeyModal, apiKeyProvider, apiKeySaving>>

----------------------------------------------------------------------------
(* The auto-refresh timer *)

\* The most auto-refresh intervals installed at the same time.
MaxTimers == 2

MsPerMinute == 60 * 1000

\* A period that takes the setting for a number of seconds.
IntervalOfSeconds(quota_refresh_interval) == quota_refresh_interval * 1000

\* Line 767.
IntervalMs(quota_refresh_interval) == quota_refresh_interval * MsPerMinute

\* Lines 770-775: the interval installed by setupAutoRefresh; own says whether
\* the cleanup of its effect run is still to come (and will clear it).
QuotaTimer(t, quota_refresh_interval) ==
    [cl |-> t.cl, intervalMs |-> IntervalMs(quota_refresh_interval), own |-> ~t.cleaned]

\* get_settings answers: setupAutoRefresh after its await.
SettingsOk(t, quota_refresh_interval) ==
    /\ t \in BagToSet(tasks) /\ t.op = "get_settings"
    /\ BagCardinality(quotaTimers) < MaxTimers
    /\ quotaTimers' = quotaTimers (+) One(QuotaTimer(t, quota_refresh_interval))
    /\ tasks' = tasks (-) One(t)
    /\ event' = [step |-> "setupAutoRefresh", alert |-> None,
                 quota_refresh_interval |-> quota_refresh_interval]
    /\ UNCHANGED <<srvAccounts, srvProjects, accounts, loading, loginInProgress, showAddMenu,
                   showProjectPrompt, projectIdInput, pendingGeminiAccountId,
                   selectedIds, quotaData, quotaLoading, pollTimer, loginTimeouts, runs,
                   logins,
                   showApiKeyModal, apiKeyProvider, apiKeySaving>>

\* get_settings throws: lines 778-780.
SettingsFail(t) ==
    /\ t \in BagToSet(tasks) /\ t.op = "get_settings"
    /\ tasks' = tasks (-) One(t)
    /\ event' = Quiet
    /\ UNCHANGED <<srvAccounts, srvProjects, accounts, loading, loginInProgress, showAddMenu,
                   showProjectPrompt, projectIdInput, pendingGeminiAccountId,
                   selectedIds, quotaData, quotaLoading, pollTimer, loginTimeouts,
                   quotaTimers, runs, logins,
                   showApiKeyModal, apiKeyProvider, apiKeySaving>>

\* Lines 770-775 and 854-871: a tick of an installed interval runs the
\* refreshAllQuotas of the render that installed it.
TickCalls(q) ==
    IF Len(q.cl.accounts) > 0 THEN ToFetch(q.cl, q.cl.accounts) ELSE {}

AutoRefreshTick(q) ==
    /\ q \in BagToSet(quotaTimers)
    /\ Room(Cardinality(TickCalls(q)))
    /\ quotaLoading' = LoadingAfterCalls(quotaLoading, TickCalls(q))
    /\ tasks' = tasks (+) QuotaCalls(TickCalls(q))
    /\ event' = [step |-> "autoRefresh", alert |-> None,
                 listed |-> IdsOf(q.cl.accounts), calls |-> {a.id : a \in TickCalls(q)}]
    /\ UNCHANGED <<srvAccounts, srvProjects, accounts, loading, loginInProgress, showAddMenu,
                   showProjectPrompt, projectIdInput, pendingGeminiAccountId,
                   selectedIds, quotaData, pollTimer, loginTimeouts, quotaTimers, runs,
                   logins,
                   showApiKeyModal, apiKeyProvider, apiKeySaving>>

----------------------------------------------------------------------------
(* The selection set and the batch executor *)

\* Lines 1273-1281: the checkbox of a row.
ToggledSelection(sel, id) ==
    IF id \in Range(sel) THEN SelectSeq(sel, LAMBDA x : x # id)
    ELSE Append(sel, id)

ToggleSelect(id) ==
    /\ Clickable
    /\ ~loading
    /\ id \in IdsOf(accounts)
    /\ selectedIds' = ToggledSelection(selectedIds, id)
    /\ event' = Quiet
    /\ UNCHANGED <<srvAccounts, srvProjects, accounts, loading, loginInProgress,
                   showAddMenu, showProjectPrompt, projectIdInput,
                   pendingGeminiAccountId, quotaData, quotaLoading, tasks, pollTimer,
                   loginTimeouts, quotaTimers, runs, logins,
                   showApiKeyModal, apiKeyProvider, apiKeySaving>>

\* Line 1263, with providerFilter "all" (filteredAccounts is accounts).
AllSelected ==
    Len(accounts) > 0 /\ \A i \in DOMAIN accounts : accounts[i].id \in Range(selectedIds)

\* Lines 1265-1271: the select-all checkbox.
ToggleSelectAll ==
    /\ Clickable
    /\ selectedIds' = IF AllSelected THEN <<>>
                       ELSE [i \in DOMAIN accounts |-> accounts[i].id]
    /\ selectedIds' # selectedIds
    /\ event' = Quiet
    /\ UNCHANGED <<srvAccounts, srvProjects, accounts, loading, loginInProgress,
                   showAddMenu, showProjectPrompt, projectIdInput,
                   pendingGeminiAccountId, quotaData, quotaLoading, tasks, pollTimer,
                   loginTimeouts, quotaTimers, runs, logins,
                   showApiKeyModal, apiKeyProvider, apiKeySaving>>

\* A batch run as the model follows it: a number while it is running, the
\* selection its for-of loop walks (the selection of the render that was
\* clicked), the state it sets, and the ids RemoteService has set for it so far.
RunOf(id, order, enabled) ==
    [id |-> id, order |-> order, enabled |-> enabled, applied |-> <<>>]

\* invoke("set_account_enabled", {accountId: order[idx], enabled}) of a batch
\* run; cl is the render that was clicked, for the fetchAccounts after the loop.
BatchCall(run, cl, idx) ==
    [op |-> "set_account_enabled", from |-> "batch", run |-> run, cl |-> cl,
     idx |-> idx]

RECURSIVE BatchCallsFrom(_, _, _)
\* A batch that issues the calls for order[idx..] all at once.
BatchCallsFrom(run, cl, idx) ==
    IF idx > Len(run.order) THEN EmptyBag
    ELSE One(BatchCall(run, cl, idx)) (+) BatchCallsFrom(run, cl, idx + 1)

\* Lines 1220-1222: the loop awaits each call before it makes the next one, so
\* what is issued at a time is the one call for order[idx].
BatchIssue(run, cl, idx) == One(BatchCall(run, cl, idx))

\* The number the model gives to the next batch run, out of `ids`.
NextRun(ids) == CHOOSE r \in ids \ runs : \A q \in ids \ runs : r <= q

\* handleBatchEnable (enabled = TRUE) and handleBatchDisable (FALSE) up to the
\* first await; the buttons are rendered while the selection is not empty.
\* A behaviour has the batch runs numbered in `ids`.
HandleBatch(enabled, ids) ==
    /\ Clickable
    /\ selectedIds # <<>>
    /\ ids \ runs # {}
    /\ Room(1)
    /\ runs' = runs \cup {NextRun(ids)}
    /\ tasks' = tasks (+) BatchIssue(RunOf(NextRun(ids), selectedIds, enabled), Render, 1)
    /\ event' = Quiet
    /\ UNCHANGED <<srvAccounts, srvProjects, accounts, loading, loginInProgress,
                   showAddMenu, showProjectPrompt, projectIdInput,
                   pendingGeminiAccountId, selectedIds, quotaData, quotaLoading,
                   pollTimer, loginTimeouts, quotaTimers, logins,
                   showApiKeyModal, apiKeyProvider, apiKeySaving>>

\* RemoteService applies set_account_enabled(id, enabled).
SetEnabled(list, id, enabled) ==
    [i \in DOMAIN list |->
        IF list[i].id = id THEN [list[i] EXCEPT !.enabled = enabled] ELSE list[i]]

\* The run once RemoteService has answered the call for order[idx].
Applied(t) == [t.run EXCEPT !.applied = Append(@, t.run.order[t.idx])]

\* Lines 1220-1223: what the loop does once the call for order[idx] has
\* returned: the next call, or fetchAccounts() after the last one.
BatchNext(t) ==
    IF t.idx < Len(t.run.order)
    THEN BatchIssue(Applied(t), t.cl, t.idx + 1)
    ELSE One(FetchAccountsCall(t.cl, "batch", Applied(t)))

\* set_account_enabled of a batch run answers.
BatchCallOk(t) ==
    /\ t \in BagToSet(tasks) /\ t.op = "set_account_enabled" /\ t.from = "batch"
    /\ t.run.order[t.idx] \in IdsOf(srvAccounts)
    /\ srvAccounts' = SetEnabled(srvAccounts, t.run.order[t.idx], t.run.enabled)
    /\ tasks' = (tasks (-) One(t)) (+) BatchNext(t)
    /\ loading' = IF t.idx < Len(t.run.order) THEN loading ELSE TRUE
    /\ event' = Quiet
    /\ UNCHANGED <<srvProjects, accounts, loginInProgress, showAddMenu,
                   showProjectPrompt, projectIdInput, pendingGeminiAccountId,
                   selectedIds, quotaData, quotaLoading, pollTimer, loginTimeouts,
                   quotaTimers, runs, logins,
                   showApiKeyModal, apiKeyProvider, apiKeySaving>>

\* A loop that catches inside its body and goes on with the next id.
BatchContinuing(t) ==
    IF t.idx < Len(t.run.order) THEN BatchIssue(t.run, t.cl, t.idx + 1) ELSE EmptyBag

\* Lines 1225-1228: the catch is outside the loop, so a call that throws ends
\* the loop: nothing more is issued.
BatchAfterFailure(t) == EmptyBag

\* set_account_enabled of a batch run throws: lines 1225-1228 and 1239-1242.
BatchCallFail(t) ==
    /\ t \in BagToSet(tasks) /\ t.op = "set_account_enabled" /\ t.from = "batch"
    /\ tasks' = (tasks (-) One(t)) (+) BatchAfterFailure(t)
    /\ event' = [step |-> IF t.run.enabled THEN "handleBatchEnable" ELSE "handleBatchDisable",
                 alert |-> "batch failed", run |-> t.run, failedAt |-> t.idx]
    /\ UNCHANGED <<srvAccounts, srvProjects, accounts, loading, loginInProgress,
                   showAddMenu, showProjectPrompt, projectIdInput,
                   pendingGeminiAccountId, selectedIds, quotaData, quotaLoading,
                   pollTimer, loginTimeouts, quotaTimers, runs, logins,
                   showApiKeyModal, apiKeyProvider, apiKeySaving>>

----------------------------------------------------------------------------
(* RemoteService on its own *)

\* invoke("delete_account", {accountId}) of handleDelete; cl is the render
\* whose row was clicked.
DeleteCall(cl, id) == [op |-> "delete_account", cl |-> cl, id |-> id]

\* Lines 1055-1067: the delete button of a row, and the confirmation dialog
\* answered by yes (answered by no, handleDelete returns).
HandleDelete(id) ==
    /\ Clickable
    /\ ~loading
    /\ id \in IdsOf(accounts)
    /\ Room(1)
    /\ tasks' = tasks (+) One(DeleteCall(Render, id))
    /\ event' = Quiet
    /\ UNCHANGED <<srvAccounts, srvProjects, accounts, loading, loginInProgress,
                   showAddMenu, showProjectPrompt, projectIdInput,
                   pendingGeminiAccountId, selectedIds, quotaData, quotaLoading,
                   pollTimer, loginTimeouts, quotaTimers, runs, logins,
                   showApiKeyModal, apiKeyProvider, apiKeySaving>>

\* RemoteService removes the account.
Without(list, id) == SelectSeq(list, LAMBDA a : a.id # id)

\* delete_account answers: line 1069, fetchAccounts() up to its await.
DeleteOk(t) ==
    /\ t \in BagToSet(tasks) /\ t.op = "delete_account"
    /\ srvAccounts' = Without(srvAccounts, t.id)
    /\ tasks' = (tasks (-) One(t)) (+) One(FetchAccountsCall(t.cl, "none", NoRun))
    /\ loading' = TRUE
    /\ event' = Quiet
    /\ UNCHANGED <<srvProjects, accounts, loginInProgress, showAddMenu,
                   showProjectPrompt, projectIdInput, pendingGeminiAccountId,
                   selectedIds, quotaData, quotaLoading, pollTimer, loginTimeouts,
                   quotaTimers, runs, logins,
                   showApiKeyModal, apiKeyProvider, apiKeySaving>>

\* delete_account throws: lines 1070-1073.
DeleteFail(t) ==
    /\ t \in BagToSet(tasks) /\ t.op = "delete_account"
    /\ tasks' = tasks (-) One(t)
    /\ event' = Alert("handleDelete", "delete failed")
    /\ UNCHANGED <<srvAccounts, srvProjects, accounts, loading, loginInProgress,
                   showAddMenu, showProjectPrompt, projectIdInput,
                   pendingGeminiAccountId, selectedIds, quotaData, quotaLoading,
                   pollTimer, loginTimeouts, quotaTimers, runs, logins,
                   showApiKeyModal, apiKeyProvider, apiKeySaving>>

\* An account appears at RemoteService: an OAuth flow ends in the browser, or
\* a credential file is added.
RemoteAdd(d) ==
    /\ d.id \notin IdsOf(srvAccounts)
    /\ srvAccounts' = Append(srvAccounts, Account(d, TRUE))
    /\ event' = Quiet
    /\ UNCHANGED <<srvProjects, accounts, loading, loginInProgress, showAddMenu,
                   showProjectPrompt, projectIdInput, pendingGeminiAccountId,
                   selectedIds, quotaData, quotaLoading, tasks, pollTimer,
                   loginTimeouts, quotaTimers, runs, logins,
                   showApiKeyModal, apiKeyProvider, apiKeySaving>>

----------------------------------------------------------------------------
(* Login: the add-account menu, startLogin, the polling interval and the
   60 s timeout *)

\* Lines 1304-1313: the add-account button, disabled while a login is pending.
ClickAddAccount ==
    /\ Clickable
    /\ loginInProgress = None
    /\ showAddMenu' = ~showAddMenu
    /\ event' = Quiet
    /\ UNCHANGED <<srvAccounts, srvProjects, accounts, loading, loginInProgress,
                   showProjectPrompt, projectIdInput, pendingGeminiAccountId,
                   selectedIds, quotaData, quotaLoading, tasks, pollTimer,
                   loginTimeouts, quotaTimers, runs, logins,
                   showApiKeyModal, apiKeyProvider, apiKeySaving>>

\* PROVIDERS (lines 686-693) with authType "oauth".
OAuthProviders == {"google", "openai", "antigravity", "kiro"}

\* A continuation of startLogin(provider) waiting at one of its awaits; cl is
\* the render whose menu item was clicked.
LoginCall(op, provider, cl) ==
    [op |-> op, flow |-> "startLogin", provider |-> provider, cl |-> cl]

\* Line 929: await new Promise(resolve => setTimeout(resolve, 500)).
SettleCall(provider, cl) ==
    [op |-> "setTimeout", flow |-> "startLogin", provider |-> provider, cl |-> cl,
     ms |-> ServerSettleMs]

\* Line 946: the get_auth_accounts of the synchronous-completion branch.
LoginSyncCall(provider, cl) ==
    [op |-> "get_auth_accounts", then |-> "startLogin", run |-> NoRun,
     provider |-> provider, cl |-> cl]

\* The startLogin calls that have not returned yet.
LoginFlows(b) ==
    {t \in BagToSet(b) :
        \/ t.op \in {"get_server_status", "start_server", "setTimeout",
                     "start_oauth_login", "open"}
        \/ t.op = "get_auth_accounts" /\ t.then = "startLogin"}

LoginFlowCount(b) ==
    BagCardinality([t \in LoginFlows(b) |-> CopiesIn(t, b)])

\* Line 972: setTimeout(() => setLoginInProgress(null), 60000).
LoginTimeout(provider) == [afterMs |-> LoginTimeoutMs, provider |-> provider]

\* Lines 1319-1326 and 915-922: a menu item of an OAuth provider closes the
\* menu and calls startLogin, which sets loginInProgress (whatever it was)
\* and awaits get_server_status.
ClickProvider(provider) ==
    /\ provider \in OAuthProviders
    /\ Clickable
    /\ showAddMenu
    /\ Room(1)
    /\ logins < MaxLogins
    /\ logins' = logins + 1
    /\ showAddMenu' = FALSE
    /\ Commit(accounts, provider, quotaLoading, loading,
              tasks (+) One(LoginCall("get_server_status", provider, Render)))
    /\ event' = [step |-> "startLogin", alert |-> None]
    /\ UNCHANGED <<srvAccounts, srvProjects, showProjectPrompt, projectIdInput,
                   pendingGeminiAccountId, selectedIds, quotaData, loginTimeouts, runs,
                   showApiKeyModal, apiKeyProvider, apiKeySaving>>

\* A startLogin that goes on to the login whatever the status says.
CallOauthAtOnce(running) == "start_oauth_login"

\* Lines 925-933: if (!status.running) start_server comes first.
CallAfterStatus(running) == IF running THEN "start_oauth_login" ELSE "start_server"

\* Lines 922-933: get_server_status answers.
GetServerStatusOk(t, running) ==
    /\ t \in BagToSet(tasks) /\ t.op = "get_server_status"
    /\ tasks' = (tasks (-) One(t))
                  (+) One(LoginCall(CallAfterStatus(running), t.provider, t.cl))
    /\ event' = Quiet
    /\ UNCHANGED <<srvAccounts, srvProjects, accounts, loading, loginInProgress,
                   showAddMenu, showProjectPrompt, projectIdInput,
                   pendingGeminiAccountId, selectedIds, quotaData, quotaLoading,
                   pollTimer, loginTimeouts, quotaTimers, runs, logins,
                   showApiKeyModal, apiKeyProvider, apiKeySaving>>

\* Lines 927-929: start_server answers; startLogin waits 500 ms.
StartServerOk(t) ==
    /\ t \in BagToSet(tasks) /\ t.op = "start_server"
    /\ tasks' = (tasks (-) One(t))
                  (+) One(SettleCall(t.provider, t.cl))
    /\ event' = Quiet
    /\ UNCHANGED <<srvAccounts, srvProjects, accounts, loading, loginInProgress,
                   showAddMenu, showProjectPrompt, projectIdInput,
                   pendingGeminiAccountId, selectedIds, quotaData, quotaLoading,
                   pollTimer, loginTimeouts, quotaTimers, runs, logins,
                   showApiKeyModal, apiKeyProvider, apiKeySaving>>

\* Lines 929-933: the 500 ms are over.
ServerSettled(t) ==
    /\ t \in BagToSet(tasks) /\ t.op = "setTimeout"
    /\ tasks' = (tasks (-) One(t)) (+) One(LoginCall("start_oauth_login", t.provider, t.cl))
    /\ event' = [step |-> "startLogin", alert |-> None, after |-> t.op]
    /\ UNCHANGED <<srvAccounts, srvProjects, accounts, loading, loginInProgress,
                   showAddMenu, showProjectPrompt, projectIdInput,
                   pendingGeminiAccountId, selectedIds, quotaData, quotaLoading,
                   pollTimer, loginTimeouts, quotaTimers, runs, logins,
                   showApiKeyModal, apiKeyProvider, apiKeySaving>>

\* authUrl.startsWith(prefix), on strings as sequences of characters.
StartsWith(s, prefix) ==
    Len(s) >= Len(prefix) /\ SubSeq(s, 1, Len(prefix)) = prefix

\* What start_oauth_login may return: a URL, a success message, a message
\* that begins like a URL, the empty string.
AuthAnswers ==
    { <<"h", "t", "t", "p", "s", ":">>, <<"o", "k">>, <<"h", "t">>, <<>> }

IsUrl(authUrl) == authUrl # <<>> /\ StartsWith(authUrl, <<"h", "t", "t", "p">>)

\* Lines 933-946 and 965-972: start_oauth_login answers.  A URL is handed to
\* the browser; another non-empty answer means the login is complete and the
\* accounts are read; the empty answer is reported, the login state cleared,
\* and the timeout of line 972 is set all the same.
StartOauthOk(t, authUrl) ==
    /\ t \in BagToSet(tasks) /\ t.op = "start_oauth_login"
    /\ IF IsUrl(authUrl)
       THEN /\ tasks' = (tasks (-) One(t)) (+) One(LoginCall("open", t.provider, t.cl))
            /\ event' = Quiet
            /\ UNCHANGED <<accounts, loading, loginInProgress, quotaLoading,
                           pollTimer, quotaTimers, loginTimeouts>>
       ELSE IF authUrl # <<>>
       THEN /\ tasks' = (tasks (-) One(t)) (+) One(LoginSyncCall(t.provider, t.cl))
            /\ event' = Quiet
            /\ UNCHANGED <<accounts, loading, loginInProgress, quotaLoading,
                           pollTimer, quotaTimers, loginTimeouts>>
       ELSE /\ Commit(accounts, None, quotaLoading, loading, tasks (-) One(t))
            /\ loginTimeouts' = loginTimeouts (+) One(LoginTimeout(t.provider))
            /\ event' = Alert("startLogin", "no auth url")
    /\ UNCHANGED <<srvAccounts, srvProjects, showAddMenu, showProjectPrompt,
                   projectIdInput, pendingGeminiAccountId, selectedIds, quotaData,
                   runs, logins,
                   showApiKeyModal, apiKeyProvider, apiKeySaving>>

\* Lines 940-941 and 972: the browser has the URL; the 60 s timeout is set.
OpenOk(t) ==
    /\ t \in BagToSet(tasks) /\ t.op = "open"
    /\ tasks' = tasks (-) One(t)
    /\ loginTimeouts' = loginTimeouts (+) One(LoginTimeout(t.provider))
    /\ event' = [step |-> "startLogin", alert |-> None, handoff |-> t.provider]
    /\ UNCHANGED <<srvAccounts, srvProjects, accounts, loading, loginInProgress,
                   showAddMenu, showProjectPrompt, projectIdInput,
                   pendingGeminiAccountId, selectedIds, quotaData, quotaLoading,
                   pollTimer, quotaTimers, runs, logins,
                   showApiKeyModal, apiKeyProvider, apiKeySaving>>

\* A catch block that calls RemoteService again with the call that failed.
CallsRetried(t) == One(t)

\* Lines 973-977: the catch block logs, alerts and clears the login state; it
\* calls nothing.
CallsAfterCatch(t) == EmptyBag

\* Lines 973-977: any of the awaits of startLogin throws.
StartLoginCatch(t) ==
    /\ t \in LoginFlows(tasks)
    /\ Commit(accounts, None, quotaLoading, loading,
              (tasks (-) One(t)) (+) CallsAfterCatch(t))
    /\ event' = [step |-> "startLogin", alert |-> "login failed", failedOp |-> t.op]
    /\ UNCHANGED <<srvAccounts, srvProjects, showAddMenu, showProjectPrompt,
                   projectIdInput, pendingGeminiAccountId, selectedIds, quotaData,
                   loginTimeouts, runs, logins,
                   showApiKeyModal, apiKeyProvider, apiKeySaving>>

\* Array.prototype.find: <<the first element at an index in hits>>, or <<>>.
Find(list, hits) ==
    IF hits = {} THEN <<>>
    ELSE << list[CHOOSE i \in hits : \A j \in hits : i <= j] >>

\* A startLogin that opens the prompt for the first gemini account it finds.
FirstGemini(latestAccounts, beforeIds) ==
    Find(latestAccounts,
         {i \in DOMAIN latestAccounts : latestAccounts[i].provider = "gemini"})

\* Lines 949-956: newGemini ?? fallbackGemini.
TargetGemini(latestAccounts, beforeIds) ==
    LET newGemini ==
            Find(latestAccounts,
                 {i \in DOMAIN latestAccounts :
                     /\ latestAccounts[i].provider = "gemini"
                     /\ latestAccounts[i].id \notin beforeIds})
        fallbackGemini ==
            Find(latestAccounts,
                 {i \in DOMAIN latestAccounts : latestAccounts[i].provider = "gemini"})
    IN  IF newGemini # <<>> THEN newGemini ELSE fallbackGemini

\* A synchronous completion that leaves the login state as it is.
LoginLeftPending(t) == loginInProgress

\* Line 963: setLoginInProgress(null), in the batch that opens the prompt.
LoginAfterSync(t) == None

\* A completion that looks for a gemini account whatever the provider.
TargetOfAnyProvider(t) == TargetGemini(srvAccounts, IdsOf(t.cl.accounts))

\* Lines 948-957: the target is looked for when provider === "google" only.
PromptTarget(t) ==
    IF t.provider = "google"
    THEN TargetGemini(srvAccounts, IdsOf(t.cl.accounts))
    ELSE <<>>

\* Lines 945-964: the get_auth_accounts of the synchronous completion answers.
LoginSyncOk(t) ==
    /\ t \in BagToSet(tasks) /\ t.op = "get_auth_accounts" /\ t.then = "startLogin"
    /\ LET target == PromptTarget(t)
       IN  /\ pendingGeminiAccountId' =
                 IF target # <<>> THEN target[1].id ELSE pendingGeminiAccountId
           /\ projectIdInput' = IF target # <<>> THEN <<>> ELSE projectIdInput
           /\ showProjectPrompt' = IF target # <<>> THEN TRUE ELSE showProjectPrompt
           /\ event' = [step |-> "startLogin", alert |-> None,
                        beforeIds |-> IdsOf(t.cl.accounts), prompted |-> target # <<>>]
    /\ Commit(srvAccounts, LoginAfterSync(t), quotaLoading, loading, tasks (-) One(t))
    /\ UNCHANGED <<srvAccounts, srvProjects, showAddMenu, selectedIds, quotaData,
                   loginTimeouts, runs, logins,
                   showApiKeyModal, apiKeyProvider, apiKeySaving>>

\* Line 972: the timeout fires.
LoginTimeoutFires(q) ==
    /\ q \in BagToSet(loginTimeouts)
    /\ loginTimeouts' = loginTimeouts (-) One(q)
    /\ Commit(accounts, None, quotaLoading, loading, tasks)
    /\ event' = Quiet
    /\ UNCHANGED <<srvAccounts, srvProjects, showAddMenu, showProjectPrompt,
                   projectIdInput, pendingGeminiAccountId, selectedIds, quotaData,
                   runs, logins,
                   showApiKeyModal, apiKeyProvider, apiKeySaving>>

\* Lines 751-753: a tick of the polling interval calls the fetchAccounts of
\* the render that installed it.
PollTick ==
    /\ pollTimer # <<>>
    /\ Room(1)
    /\ tasks' = tasks (+) One(FetchAccountsCall(pollTimer[1].cl, "none", NoRun))
    /\ loading' = TRUE
    /\ event' = Quiet
    /\ UNCHANGED <<srvAccounts, srvProjects, accounts, loginInProgress, showAddMenu,
                   showProjectPrompt, projectIdInput, pendingGeminiAccountId,
                   selectedIds, quotaData, quotaLoading, pollTimer, loginTimeouts,
                   quotaTimers, runs, logins,
                   showApiKeyModal, apiKeyProvider, apiKeySaving>>

----------------------------------------------------------------------------
(* The project-id prompt *)

\* The characters String.prototype.trim removes, among those the model types.
WhiteSpace == {" ", "\t"}

\* What the user may have typed in the prompt: strings as sequences of characters.
Typed == UNION {[1 .. n -> {" ", "p"}] : n \in 0 .. MaxInput}

RECURSIVE TrimStart(_)
TrimStart(s) ==
    IF s # <<>> /\ Head(s) \in WhiteSpace THEN TrimStart(Tail(s)) ELSE s

RECURSIVE TrimEnd(_)
TrimEnd(s) ==
    IF s # <<>> /\ s[Len(s)] \in WhiteSpace THEN TrimEnd(SubSeq(s, 1, Len(s) - 1)) ELSE s

\* A trim that removes nothing.
Untrimmed(s) == s

\* projectIdInput.trim() (line 985).
Trim(s) == TrimEnd(TrimStart(s))

\* Line 2193: onChange of the prompt's input.
TypeProjectId(text) ==
    /\ showProjectPrompt
    /\ text # projectIdInput
    /\ projectIdInput' = text
    /\ event' = Quiet
    /\ UNCHANGED <<srvAccounts, srvProjects, accounts, loading, loginInProgress,
                   showAddMenu, showProjectPrompt, pendingGeminiAccountId, selectedIds,
                   quotaData, quotaLoading, tasks, pollTimer, loginTimeouts,
                   quotaTimers, runs, logins,
                   showApiKeyModal, apiKeyProvider, apiKeySaving>>

\* invoke("set_gemini_project_id", {accountId, projectId}) of handleProjectConfirm.
\* A confirm that saves the project id for the first account of the list.
ProjectCallToFirst(accountId, projectId) ==
    [op |-> "set_gemini_project_id", accountId |-> accounts[1].id,
     projectId |-> projectId]

ProjectCall(accountId, projectId) ==
    [op |-> "set_gemini_project_id", accountId |-> accountId, projectId |-> projectId]

\* Lines 984-1001: the prompt's confirm button.
HandleProjectConfirm ==
    /\ showProjectPrompt
    /\ LET trimmed == Trim(projectIdInput)
       IN  IF trimmed = <<>>
           THEN /\ event' = Alert("handleProjectConfirm", "project id required")
                /\ UNCHANGED <<showProjectPrompt, pendingGeminiAccountId, tasks>>
           ELSE /\ showProjectPrompt' = FALSE
                /\ pendingGeminiAccountId' = None
                /\ IF pendingGeminiAccountId = None
                   THEN /\ event' = Alert("handleProjectConfirm", "no gemini account")
                        /\ UNCHANGED tasks
                   ELSE /\ tasks' = tasks (+) One(ProjectCall(pendingGeminiAccountId, trimmed))
                        /\ event' = Quiet
    /\ UNCHANGED <<srvAccounts, srvProjects, accounts, loading, loginInProgress,
                   showAddMenu, projectIdInput, selectedIds, quotaData, quotaLoading,
                   pollTimer, loginTimeouts, quotaTimers, runs, logins,
                   showApiKeyModal, apiKeyProvider, apiKeySaving>>

\* Line 1002: set_gemini_project_id answers.
ProjectSaveOk(t) ==
    /\ t \in BagToSet(tasks) /\ t.op = "set_gemini_project_id"
    /\ srvProjects' = [srvProjects EXCEPT ![t.accountId] = << t.projectId >>]
    /\ tasks' = tasks (-) One(t)
    /\ event' = Alert("handleProjectConfirm", "project id saved")
    /\ UNCHANGED <<srvAccounts, accounts, loading, loginInProgress, showAddMenu,
                   showProjectPrompt, projectIdInput, pendingGeminiAccountId,
                   selectedIds, quotaData, quotaLoading, pollTimer, loginTimeouts,
                   quotaTimers, runs, logins,
                   showApiKeyModal, apiKeyProvider, apiKeySaving>>

\* Lines 1003-1006: set_gemini_project_id throws.
ProjectSaveFail(t) ==
    /\ t \in BagToSet(tasks) /\ t.op = "set_gemini_project_id"
    /\ tasks' = tasks (-) One(t)
    /\ event' = Alert("handleProjectConfirm", "save failed")
    /\ UNCHANGED <<srvAccounts, srvProjects, accounts, loading, loginInProgress,
                   showAddMenu, showProjectPrompt, projectIdInput,
                   pendingGeminiAccountId, selectedIds, quotaData, quotaLoading,
                   pollTimer, loginTimeouts, quotaTimers, runs, logins,
                   showApiKeyModal, apiKeyProvider, apiKeySaving>>

\* A cancel that keeps the account id the prompt was opened for.
PendingKept == pendingGeminiAccountId

\* Line 1011: setPendingGeminiAccountId(null).
PendingAfterCancel == None

\* Lines 1009-1014: the prompt's cancel button.
HandleProjectCancel ==
    /\ showProjectPrompt
    /\ showProjectPrompt' = FALSE
    /\ pendingGeminiAccountId' = PendingAfterCancel
    /\ projectIdInput' = <<>>
    /\ Commit(accounts, None, quotaLoading, loading, tasks)
    /\ event' = [step |-> "handleProjectCancel", alert |-> None]
    /\ UNCHANGED <<srvAccounts, srvProjects, showAddMenu, selectedIds, quotaData,
                   loginTimeouts, runs, logins,
                   showApiKeyModal, apiKeyProvider, apiKeySaving>>

----------------------------------------------------------------------------
(* The page right after it is mounted: lines 707-729, and the first run of the
   effect of lines 746-758 *)

Mounted == Closure(<<>>, None, NoLoading)

InitPage(srv) ==
    /\ srvAccounts = srv
    /\ srvProjects = [id \in AccountIds |-> <<>>]
    /\ accounts = <<>>
    /\ loading = TRUE
    /\ loginInProgress = None
    /\ showAddMenu = FALSE
    /\ showProjectPrompt = FALSE
    /\ projectIdInput = <<>>
    /\ pendingGeminiAccountId = None
    /\ selectedIds = <<>>
    /\ quotaData = NoData
    /\ quotaLoading = NoLoading
    /\ tasks = One(FetchAccountsCall(Mounted, "none", NoRun)) (+) One(CachedQuotasCall)
    /\ pollTimer = <<>>
    /\ loginTimeouts = EmptyBag
    /\ quotaTimers = EmptyBag
    /\ runs = {}
    /\ logins = 0
    /\ showApiKeyModal = FALSE
    /\ apiKeyProvider = None
    /\ apiKeySaving = FALSE
    /\ event = Quiet

----------------------------------------------------------------------------
(* API-key accounts, enable/disable of one account, import and export *)

ApiKeyProviders == {"kimi", "glm"}

\* What the user may have typed in the API-key field of the modal.
ApiKeyTexts == {<<>>, <<" ">>, <<"p">>, <<" ", "p">>}

\* Lines 1316-1331 and 1016-1021: a menu item of an api_key provider closes
\* the menu and opens the modal for that provider.
OpenApiKeyModal(provider) ==
    /\ provider \in ApiKeyProviders
    /\ Clickable
    /\ showAddMenu
    /\ showAddMenu' = FALSE
    /\ showApiKeyModal' = TRUE
    /\ apiKeyProvider' = provider
    /\ event' = Quiet
    /\ UNCHANGED <<srvAccounts, srvProjects, accounts, loading, loginInProgress,
                   showProjectPrompt, projectIdInput, pendingGeminiAccountId,
                   selectedIds, quotaData, quotaLoading, tasks, pollTimer,
                   loginTimeouts, quotaTimers, runs, logins, apiKeySaving>>

\* Lines 1023-1029 and 2251-2256: the cancel button of the modal, never disabled.
CloseApiKeyModal ==
    /\ showApiKeyModal
    /\ showApiKeyModal' = FALSE
    /\ apiKeyProvider' = None
    /\ apiKeySaving' = FALSE
    /\ event' = [step |-> "closeApiKeyModal", alert |-> None]
    /\ UNCHANGED <<srvAccounts, srvProjects, accounts, loading, loginInProgress,
                   showAddMenu, showProjectPrompt, projectIdInput,
                   pendingGeminiAccountId, selectedIds, quotaData, quotaLoading,
                   tasks, pollTimer, loginTimeouts, quotaTimers, runs, logins>>

SaveApiKeyCall(cl, provider) ==
    [op |-> "save_api_key_account", cl |-> cl, provider |-> provider]

\* Lines 1031-1044: the save button (disabled while apiKeySaving) with the
\* text typed in the field; a blank key is refused with an alert.
HandleSaveApiKey(apiKeyInput) ==
    /\ showApiKeyModal
    /\ ~apiKeySaving
    /\ apiKeyProvider # None
    /\ IF Trim(apiKeyInput) = <<>>
       THEN /\ event' = Alert("handleSaveApiKey", "enter an API key")
            /\ UNCHANGED <<tasks, apiKeySaving>>
       ELSE /\ Room(1)
            /\ apiKeySaving' = TRUE
            /\ tasks' = tasks (+) One(SaveApiKeyCall(Render, apiKeyProvider))
            /\ event' = [step |-> "handleSaveApiKey", alert |-> None]
    /\ UNCHANGED <<srvAccounts, srvProjects, accounts, loading, loginInProgress,
                   showAddMenu, showProjectPrompt, projectIdInput,
                   pendingGeminiAccountId, selectedIds, quotaData, quotaLoading,
                   pollTimer, loginTimeouts, quotaTimers, runs, logins,
                   showApiKeyModal, apiKeyProvider>>

\* RemoteService stores the key as an account of that provider, if the
\* directory still has one to give.
WithApiKey(list, provider) ==
    LET free == {d \in Directory : d.provider = provider /\ d.id \notin IdsOf(list)}
    IN  IF free = {} THEN list
        ELSE Append(list, Account(CHOOSE d \in free : TRUE, TRUE))

\* save_api_key_account answers: line 1046, fetchAccounts() up to its await.
SaveApiKeyOk(t) ==
    /\ t \in BagToSet(tasks) /\ t.op = "save_api_key_account"
    /\ srvAccounts' = WithApiKey(srvAccounts, t.provider)
    /\ tasks' = (tasks (-) One(t)) (+) One(FetchAccountsCall(t.cl, "apiKey", NoRun))
    /\ loading' = TRUE
    /\ event' = Quiet
    /\ UNCHANGED <<srvProjects, accounts, loginInProgress, showAddMenu,
                   showProjectPrompt, projectIdInput, pendingGeminiAccountId,
                   selectedIds, quotaData, quotaLoading, pollTimer, loginTimeouts,
                   quotaTimers, runs, logins,
                   showApiKeyModal, apiKeyProvider, apiKeySaving>>

\* A catch that leaves the save button disabled.
SavingLeftOn(t) == apiKeySaving

\* Line 1051: setApiKeySaving(false) in the catch of handleSaveApiKey.
SavingAfterFailure(t) == FALSE

\* save_api_key_account throws: lines 1048-1052.
SaveApiKeyFail(t) ==
    /\ t \in BagToSet(tasks) /\ t.op = "save_api_key_account"
    /\ tasks' = tasks (-) One(t)
    /\ apiKeySaving' = SavingAfterFailure(t)
    /\ event' = Alert("handleSaveApiKey", "save failed")
    /\ UNCHANGED <<srvAccounts, srvProjects, accounts, loading, loginInProgress,
                   showAddMenu, showProjectPrompt, projectIdInput,
                   pendingGeminiAccountId, selectedIds, quotaData, quotaLoading,
                   pollTimer, loginTimeouts, quotaTimers, runs, logins,
                   showApiKeyModal, apiKeyProvider>>

ToggleCall(cl, id, enabled) ==
    [op |-> "set_account_enabled", from |-> "toggle", cl |-> cl, id |-> id,
     enabled |-> enabled]

\* Lines 1076-1078 and 1748: the enable/disable button of a row.
HandleToggleEnabled(a) ==
    /\ Clickable
    /\ ~loading
    /\ a \in Range(accounts)
    /\ Room(1)
    /\ tasks' = tasks (+) One(ToggleCall(Render, a.id, ~a.enabled))
    /\ event' = Quiet
    /\ UNCHANGED <<srvAccounts, srvProjects, accounts, loading, loginInProgress,
                   showAddMenu, showProjectPrompt, projectIdInput,
                   pendingGeminiAccountId, selectedIds, quotaData, quotaLoading,
                   pollTimer, loginTimeouts, quotaTimers, runs, logins,
                   showApiKeyModal, apiKeyProvider, apiKeySaving>>

\* set_account_enabled answers: line 1079, fetchAccounts() up to its await.
ToggleOk(t) ==
    /\ t \in BagToSet(tasks) /\ t.op = "set_account_enabled" /\ t.from = "toggle"
    /\ srvAccounts' = SetEnabled(srvAccounts, t.id, t.enabled)
    /\ tasks' = (tasks (-) One(t)) (+) One(FetchAccountsCall(t.cl, "none", NoRun))
    /\ loading' = TRUE
    /\ event' = Quiet
    /\ UNCHANGED <<srvProjects, accounts, loginInProgress, showAddMenu,
                   showProjectPrompt, projectIdInput, pendingGeminiAccountId,
                   selectedIds, quotaData, quotaLoading, pollTimer, loginTimeouts,
                   quotaTimers, runs, logins,
                   showApiKeyModal, apiKeyProvider, apiKeySaving>>

\* set_account_enabled throws: lines 1080-1083.
ToggleFail(t) ==
    /\ t \in BagToSet(tasks) /\ t.op = "set_account_enabled" /\ t.from = "toggle"
    /\ tasks' = tasks (-) One(t)
    /\ event' = Alert("handleToggleEnabled", "toggle failed")
    /\ UNCHANGED <<srvAccounts, srvProjects, accounts, loading, loginInProgress,
                   showAddMenu, showProjectPrompt, projectIdInput,
                   pendingGeminiAccountId, selectedIds, quotaData, quotaLoading,
                   pollTimer, loginTimeouts, quotaTimers, runs, logins,
                   showApiKeyModal, apiKeyProvider, apiKeySaving>>

FileCall(op, cl) == [op |-> op, cl |-> cl]

\* Lines 878-889 and 896-905: the export and import buttons, once a file has
\* been chosen in the dialog.
HandleFile(op) ==
    /\ op \in {"export_accounts_to_file", "import_accounts_from_file"}
    /\ Clickable
    /\ Room(1)
    /\ tasks' = tasks (+) One(FileCall(op, Render))
    /\ event' = Quiet
    /\ UNCHANGED <<srvAccounts, srvProjects, accounts, loading, loginInProgress,
                   showAddMenu, showProjectPrompt, projectIdInput,
                   pendingGeminiAccountId, selectedIds, quotaData, quotaLoading,
                   pollTimer, loginTimeouts, quotaTimers, runs, logins,
                   showApiKeyModal, apiKeyProvider, apiKeySaving>>

HandleExport == HandleFile("export_accounts_to_file")

HandleImport == HandleFile("import_accounts_from_file")

\* export_accounts_to_file answers (line 890) or throws (lines 891-893): a
\* line on the console either way.
ExportDone(t, threw) ==
    /\ t \in BagToSet(tasks) /\ t.op = "export_accounts_to_file"
    /\ tasks' = tasks (-) One(t)
    /\ event' = [step |-> "handleExport", alert |-> None, threw |-> threw]
    /\ UNCHANGED <<srvAccounts, srvProjects, accounts, loading, loginInProgress,
                   showAddMenu, showProjectPrompt, projectIdInput,
                   pendingGeminiAccountId, selectedIds, quotaData, quotaLoading,
                   pollTimer, loginTimeouts, quotaTimers, runs, logins,
                   showApiKeyModal, apiKeyProvider, apiKeySaving>>

ExportOk(t) == ExportDone(t, FALSE)

ExportFail(t) == ExportDone(t, TRUE)

\* import_accounts_from_file answers with the accounts of the file added at
\* RemoteService: lines 906-908, fetchAccounts() up to its await; the
\* refreshAllQuotas of line 909 follows it.
ImportOk(t, file) ==
    /\ t \in BagToSet(tasks) /\ t.op = "import_accounts_from_file"
    /\ srvAccounts' = IF file.id \in IdsOf(srvAccounts) THEN srvAccounts
                      ELSE Append(srvAccounts, Account(file, TRUE))
    /\ tasks' = (tasks (-) One(t)) (+) One(FetchAccountsCall(t.cl, "import", NoRun))
    /\ loading' = TRUE
    /\ event' = Quiet
    /\ UNCHANGED <<srvProjects, accounts, loginInProgress, showAddMenu,
                   showProjectPrompt, projectIdInput, pendingGeminiAccountId,
                   selectedIds, quotaData, quotaLoading, pollTimer, loginTimeouts,
                   quotaTimers, runs, logins,
                   showApiKeyModal, apiKeyProvider, apiKeySaving>>

\* import_accounts_from_file throws: lines 910-912.
ImportFail(t) ==
    /\ t \in BagToSet(tasks) /\ t.op = "import_accounts_from_file"
    /\ tasks' = tasks (-) One(t)
    /\ event' = [step |-> "handleImport", alert |-> None, threw |-> TRUE]
    /\ UNCHANGED <<srvAccounts, srvProjects, accounts, loading, loginInProgress,
                   showAddMenu, showProjectPrompt, projectIdInput,
                   pendingGeminiAccountId, selectedIds, quotaData, quotaLoading,
                   pollTimer, loginTimeouts, quotaTimers, runs, logins,
                   showApiKeyModal, apiKeyProvider, apiKeySaving>>

----------------------------------------------------------------------------
(* The quota cache: the page with its refresh buttons and the auto-refresh *)

QuotaDirectory == {d \in Directory : d.id \in {"g1"}}

\* The records get_cached_quotas may hold: a well-formed one and a malformed one.
CachedRecords ==
    { [provider |-> "gemini", quota_data |-> Serialize([last_updated |-> 0, is_error |-> FALSE])],
      [provider |-> "antigravity", quota_data |-> Serialize([last_updated |-> 0, is_error |-> FALSE])],
      [provider |-> "gemini", quota_data |-> <<"garbage">>] }

CachedAnswers == UNION {[S -> CachedRecords] : S \in SUBSET {"g1"}}

RefreshIntervals == {1, 5}

InitQuota == InitPage(<<>>)

NextQuota ==
    \/ \E t \in BagToSet(tasks) : FetchAccountsOk(t)
    \/ \E t \in BagToSet(tasks) : FetchAccountsFail(t)
    \/ HandleRefresh
    \/ \E a \in Range(accounts) : ClickQuotaRefresh(a)
    \/ \E t \in BagToSet(tasks), r \in QuotaSnapshots : QuotaOk(t, r)
    \/ \E t \in BagToSet(tasks) : QuotaFail(t)
    \/ \E t \in BagToSet(tasks), c \in CachedAnswers : CachedOk(t, c)
    \/ \E t \in BagToSet(tasks) : CachedFail(t)
    \/ \E t \in BagToSet(tasks), m \in RefreshIntervals : SettingsOk(t, m)
    \/ \E t \in BagToSet(tasks) : SettingsFail(t)
    \/ \E q \in BagToSet(quotaTimers) : AutoRefreshTick(q)
    \/ \E d \in QuotaDirectory : RemoteAdd(d)

SpecQuota == InitQuota /\ [][NextQuota]_vars

----------------------------------------------------------------------------
(* The auto-refresh timer on a page whose account count goes up and down:
   the one account is at RemoteService when the page is mounted, its row is
   deleted from the page, and it may be added again later.  What a quota call
   answers makes no difference to the timers: the calls fail. *)

AutoDirectory == {d \in Directory : d.id \in {"g1"}}

InitAuto == InitPage(<< Account(CHOOSE d \in Directory : d.id = "g1", TRUE) >>)

NextAuto ==
    \/ \E t \in BagToSet(tasks) : FetchAccountsOk(t)
    \/ \E t \in BagToSet(tasks) : FetchAccountsFail(t)
    \/ HandleRefresh
    \/ \E t \in BagToSet(tasks) : QuotaFail(t)
    \/ \E t \in BagToSet(tasks) : CachedFail(t)
    \/ \E t \in BagToSet(tasks), m \in RefreshIntervals : SettingsOk(t, m)
    \/ \E t \in BagToSet(tasks) : SettingsFail(t)
    \/ \E q \in BagToSet(quotaTimers) : AutoRefreshTick(q)
    \/ \E d \in AutoDirectory : RemoteAdd(d)
    \/ \E id \in AccountIds : HandleDelete(id)
    \/ \E t \in BagToSet(tasks) : DeleteOk(t)
    \/ \E t \in BagToSet(tasks) : DeleteFail(t)

SpecAuto == InitAuto /\ [][NextAuto]_vars

----------------------------------------------------------------------------
(* Quota fetches side by side: a page that lists two gemini accounts and an
   antigravity account, whose quota is fetched when the page finds them and
   whenever the refresh button of a row is clicked. *)

FrameAccounts ==
    << Account(CHOOSE d \in Directory : d.id = "g1", TRUE),
       Account(CHOOSE d \in Directory : d.id = "g2", TRUE),
       Account(CHOOSE d \in Directory : d.id = "a1", TRUE) >>

InitFrame == InitPage(FrameAccounts)

NextFrame ==
    \/ \E t \in BagToSet(tasks) : FetchAccountsOk(t)
    \/ \E t \in BagToSet(tasks) : FetchAccountsFail(t)
    \/ \E a \in Range(accounts) : ClickQuotaRefresh(a)
    \/ \E t \in BagToSet(tasks), r \in QuotaSnapshots : QuotaOk(t, r)
    \/ \E t \in BagToSet(tasks) : QuotaFail(t)
    \/ \E t \in BagToSet(tasks) : CachedFail(t)
    \/ \E t \in BagToSet(tasks) : SettingsFail(t)

SpecFrame == InitFrame /\ [][NextFrame]_vars

----------------------------------------------------------------------------
(* Accounts without a quota family: a page that lists a gemini account and a
   kimi account, to which a glm account is added at RemoteService, with the
   callers of the quota fetches: fetchAccounts, handleRefresh and the
   auto-refresh interval. *)

UnknownAccounts ==
    << Account(CHOOSE d \in Directory : d.id = "g1", TRUE),
       Account(CHOOSE d \in Directory : d.id = "k1", TRUE) >>

UnknownDirectory == {d \in Directory : d.id \in {"k2"}}

InitUnknown == InitPage(UnknownAccounts)

NextUnknown ==
    \/ \E t \in BagToSet(tasks) : FetchAccountsOk(t)
    \/ \E t \in BagToSet(tasks) : FetchAccountsFail(t)
    \/ HandleRefresh
    \/ \E a \in Range(accounts) : ClickQuotaRefresh(a)
    \/ \E t \in BagToSet(tasks) : QuotaFail(t)
    \/ \E t \in BagToSet(tasks) : CachedFail(t)
    \/ \E t \in BagToSet(tasks) : SettingsOk(t, 1)
    \/ \E t \in BagToSet(tasks) : SettingsFail(t)
    \/ \E q \in BagToSet(quotaTimers) : AutoRefreshTick(q)
    \/ \E d \in UnknownDirectory : RemoteAdd(d)

SpecUnknown == InitUnknown /\ [][NextUnknown]_vars

----------------------------------------------------------------------------
(* The quota cache over the life of an account: a page that lists one gemini
   account, whose quota is fetched and loaded from the backend cache, and
   which the user deletes; the account may come back at RemoteService. *)

CacheDirectory == {d \in Directory : d.id \in {"g1"}}

InitCache == InitPage(<< Account(CHOOSE d \in Directory : d.id = "g1", TRUE) >>)

NextCache ==
    \/ \E t \in BagToSet(tasks) : FetchAccountsOk(t)
    \/ \E t \in BagToSet(tasks) : FetchAccountsFail(t)
    \/ \E t \in BagToSet(tasks), r \in QuotaSnapshots : QuotaOk(t, r)
    \/ \E t \in BagToSet(tasks) : QuotaFail(t)
    \/ \E t \in BagToSet(tasks), c \in CachedAnswers : CachedOk(t, c)
    \/ \E t \in BagToSet(tasks) : CachedFail(t)
    \/ \E t \in BagToSet(tasks) : SettingsFail(t)
    \/ \E id \in AccountIds : HandleDelete(id)
    \/ \E t \in BagToSet(tasks) : DeleteOk(t)
    \/ \E t \in BagToSet(tasks) : DeleteFail(t)
    \/ \E d \in CacheDirectory : RemoteAdd(d)

SpecCache == InitCache /\ [][NextCache]_vars

----------------------------------------------------------------------------
(* Login: a page with no account yet, on which logins are started from the
   menu; the account of a login appears at RemoteService when its OAuth flow
   ends, in the browser or in the backend.  The cache, settings and quota
   calls the page makes are answered by a failure. *)

LoginProviders == {p \in OAuthProviders : p \in {"google", "openai"}}

LoginDirectory == {d \in Directory : d.id \in {"g1"}}

InitLogin == InitPage(<<>>)

NextLogin ==
    \/ \E t \in BagToSet(tasks) : FetchAccountsOk(t)
    \/ \E t \in BagToSet(tasks) : FetchAccountsFail(t)
    \/ \E t \in BagToSet(tasks) : CachedFail(t)
    \/ \E t \in BagToSet(tasks) : SettingsFail(t)
    \/ \E t \in BagToSet(tasks) : QuotaFail(t)
    \/ ClickAddAccount
    \/ \E provider \in LoginProviders : ClickProvider(provider)
    \/ \E t \in BagToSet(tasks), running \in BOOLEAN : GetServerStatusOk(t, running)
    \/ \E t \in BagToSet(tasks) : StartServerOk(t)
    \/ \E t \in BagToSet(tasks) : ServerSettled(t)
    \/ \E t \in BagToSet(tasks), authUrl \in AuthAnswers : StartOauthOk(t, authUrl)
    \/ \E t \in BagToSet(tasks) : OpenOk(t)
    \/ \E t \in BagToSet(tasks) : StartLoginCatch(t)
    \/ \E t \in BagToSet(tasks) : LoginSyncOk(t)
    \/ \E q \in BagToSet(loginTimeouts) : LoginTimeoutFires(q)
    \/ PollTick
    \/ \E d \in LoginDirectory : RemoteAdd(d)
    \/ HandleProjectCancel

SpecLogin == InitLogin /\ [][NextLogin]_vars

----------------------------------------------------------------------------
(* Login attempts, one after the other: logins with "google", each started
   when no call is waiting for its answer, with every answer and every failure
   of the calls of startLogin. *)

InitAttempt == InitPage(<<>>)

NextAttempt ==
    \/ \E t \in BagToSet(tasks) : FetchAccountsOk(t)
    \/ \E t \in BagToSet(tasks) : FetchAccountsFail(t)
    \/ \E t \in BagToSet(tasks) : CachedFail(t)
    \/ \E t \in BagToSet(tasks) : SettingsFail(t)
    \/ \E t \in BagToSet(tasks) : QuotaFail(t)
    \/ tasks = EmptyBag /\ ClickAddAccount
    \/ tasks = EmptyBag /\ ClickProvider("google")
    \/ \E t \in BagToSet(tasks), running \in BOOLEAN : GetServerStatusOk(t, running)
    \/ \E t \in BagToSet(tasks) : StartServerOk(t)
    \/ \E t \in BagToSet(tasks) : ServerSettled(t)
    \/ \E t \in BagToSet(tasks), authUrl \in AuthAnswers : StartOauthOk(t, authUrl)
    \/ \E t \in BagToSet(tasks) : OpenOk(t)
    \/ \E t \in BagToSet(tasks) : StartLoginCatch(t)
    \/ \E t \in BagToSet(tasks) : LoginSyncOk(t)
    \/ \E q \in BagToSet(loginTimeouts) : LoginTimeoutFires(q)
    \/ PollTick
    \/ \E d \in LoginDirectory : RemoteAdd(d)
    \/ HandleProjectCancel

SpecAttempt == InitAttempt /\ [][NextAttempt]_vars

----------------------------------------------------------------------------
(* Login polling: logins with "google", each started when no call is waiting
   for its answer, with start_oauth_login answering with a URL or a failure.  The timers of the page run: a pending
   60 s timeout fires in the end. *)

InitPolling == InitPage(<<>>)

NextPolling ==
    \/ \E t \in BagToSet(tasks) : FetchAccountsOk(t)
    \/ \E t \in BagToSet(tasks) : FetchAccountsFail(t)
    \/ \E t \in BagToSet(tasks) : CachedFail(t)
    \/ \E t \in BagToSet(tasks) : SettingsFail(t)
    \/ \E t \in BagToSet(tasks) : QuotaFail(t)
    \/ ClickAddAccount
    \/ tasks = EmptyBag /\ ClickProvider("google")
    \/ \E t \in BagToSet(tasks), running \in BOOLEAN : GetServerStatusOk(t, running)
    \/ \E t \in BagToSet(tasks) : StartServerOk(t)
    \/ \E t \in BagToSet(tasks) : ServerSettled(t)
    \/ \E t \in BagToSet(tasks), authUrl \in {a \in AuthAnswers : IsUrl(a)} :
          StartOauthOk(t, authUrl)
    \/ \E t \in BagToSet(tasks) : OpenOk(t)
    \/ \E t \in BagToSet(tasks) : StartLoginCatch(t)
    \/ \E q \in BagToSet(loginTimeouts) : LoginTimeoutFires(q)
    \/ PollTick
    \/ \E d \in LoginDirectory : RemoteAdd(d)

SpecPolling ==
    /\ InitPolling /\ [][NextPolling]_vars
    /\ WF_vars(\E q \in BagToSet(loginTimeouts) : LoginTimeoutFires(q))

----------------------------------------------------------------------------
(* The project prompt: a page that shows one gemini account, on which logins
   with "google" are started and complete in the backend
   (start_oauth_login answers with a message, the server is running), while
   another gemini account appears at RemoteService.  The user opens the menu,
   picks a provider and types when no call is waiting for its answer. *)

PromptDirectory == {d \in Directory : d.id \in {"g2"}}

InitPrompt == InitPage(<< Account(CHOOSE d \in Directory : d.id = "g1", TRUE) >>)

NextPrompt ==
    \/ \E t \in BagToSet(tasks) : FetchAccountsOk(t)
    \/ \E t \in BagToSet(tasks) : FetchAccountsFail(t)
    \/ \E t \in BagToSet(tasks) : CachedFail(t)
    \/ \E t \in BagToSet(tasks) : SettingsFail(t)
    \/ \E t \in BagToSet(tasks) : QuotaFail(t)
    \/ tasks = EmptyBag /\ ClickAddAccount
    \/ tasks = EmptyBag /\ ClickProvider("google")
    \/ \E t \in BagToSet(tasks) : GetServerStatusOk(t, TRUE)
    \/ \E t \in BagToSet(tasks), authUrl \in {a \in AuthAnswers : a # <<>> /\ ~IsUrl(a)} :
          StartOauthOk(t, authUrl)
    \/ \E t \in BagToSet(tasks) : StartLoginCatch(t)
    \/ \E t \in BagToSet(tasks) : LoginSyncOk(t)
    \/ PollTick
    \/ \E d \in PromptDirectory : RemoteAdd(d)
    \/ tasks = EmptyBag /\ \E text \in Typed : TypeProjectId(text)
    \/ HandleProjectConfirm
    \/ \E t \in BagToSet(tasks) : ProjectSaveOk(t)
    \/ \E t \in BagToSet(tasks) : ProjectSaveFail(t)
    \/ HandleProjectCancel

SpecPrompt == InitPrompt /\ [][NextPrompt]_vars

----------------------------------------------------------------------------
(* The batch executor: a page that finds its accounts at RemoteService,
   selects among them and runs batches.  The accounts are API-key accounts,
   which have no quota family, so that no quota call is made; the cache and
   settings calls the page makes are answered by a failure. *)

BatchAccounts ==
    << Account([id |-> "k1", provider |-> "kimi"], TRUE),
       Account([id |-> "k2", provider |-> "glm"], FALSE),
       Account([id |-> "k3", provider |-> "kimi"], TRUE) >>

\* One batch run over up to three accounts.
InitBatch == InitPage(BatchAccounts)

NextBatchOf(ids) ==
    \/ \E t \in BagToSet(tasks) : FetchAccountsOk(t)
    \/ \E t \in BagToSet(tasks) : FetchAccountsFail(t)
    \/ \E t \in BagToSet(tasks) : CachedFail(t)
    \/ \E t \in BagToSet(tasks) : SettingsFail(t)
    \/ \E id \in AccountIds : ToggleSelect(id)
    \/ ToggleSelectAll
    \/ \E enabled \in BOOLEAN : HandleBatch(enabled, ids)
    \/ \E t \in BagToSet(tasks) : BatchCallOk(t)
    \/ \E t \in BagToSet(tasks) : BatchCallFail(t)

NextBatch == NextBatchOf({1})

SpecBatch == InitBatch /\ [][NextBatch]_vars

\* Two batch runs, which may overlap, over up to two accounts.
InitBatchPair == InitPage(SubSeq(BatchAccounts, 1, 2))

NextBatchPair == NextBatchOf({1, 2})

SpecBatchPair == InitBatchPair /\ [][NextBatchPair]_vars

\* C2: for every account id, at most one fetch_<family>_quota call is
\* outstanding at any time, whoever asked for the fetches.
OutstandingQuotaCalls(id) ==
    {t \in BagToSet(tasks) : t.op = "fetch_quota" /\ t.id = id}

C2_AtMostOneFetchInFlight ==
    \A id \in AccountIds :
        \A t \in OutstandingQuotaCalls(id) :
            /\ CopiesIn(t, tasks) <= 1
            /\ OutstandingQuotaCalls(id) = {t}

\* C5: a step of loadCachedQuotas that merges an answer leaves, for every
\* record of the answer whose quota_data does not parse, the entry of that
\* account id as it was in every slot.
C5_MalformedRecordSkipped ==
    [][\A t \in BagToSet(tasks), c \in CachedAnswers :
          CachedOk(t, c) =>
              \A id \in DOMAIN c :
                  JSONParse(c[id].quota_data) = <<>> =>
                      \A f \in Families : quotaData'[f][id] = quotaData[f][id]]_vars

\* A malformed record has just been merged for an id that has an entry.
C5_Witness ==
    /\ event.step = "loadCachedQuotas"
    /\ \E id \in DOMAIN event.cached :
           /\ JSONParse(event.cached[id].quota_data) = <<>>
           /\ \E f \in Families : quotaData[f][id] # <<>>

----------------------------------------------------------------------------
(* Batch enable / disable *)

\* The set_account_enabled calls of batch run r that wait for their answer.
BatchCallsOf(b, r) ==
    {t \in BagToSet(b) : t.op = "set_account_enabled" /\ t.from = "batch" /\ t.run.id = r}

\* The enabled flag RemoteService holds for account id.
EnabledAt(list, id) ==
    LET i == CHOOSE j \in DOMAIN list : list[j].id = id IN list[i].enabled

\* C3: when set_account_enabled fails for order[idx] of a batch run, the ids
\* before it have been set at RemoteService and hold the state of the run, no
\* call of the run is left or issued for an id after it and those ids hold the
\* state they had, the failure is shown in an alert, and the selection is
\* what it was.  A call of a run that is already going is only ever issued by
\* the answer to the run's previous call.
C3_FailureStopsBatch ==
    [][ /\ \A t \in BagToSet(tasks) :
             BatchCallFail(t) =>
               /\ selectedIds' = selectedIds
               /\ event'.alert = "batch failed"
               /\ t.run.applied = SubSeq(t.run.order, 1, t.idx - 1)
               /\ \A i \in 1 .. (t.idx - 1) :
                      EnabledAt(srvAccounts', t.run.order[i]) = t.run.enabled
               /\ \A i \in t.idx .. Len(t.run.order) :
                      EnabledAt(srvAccounts', t.run.order[i])
                          = EnabledAt(BatchAccounts, t.run.order[i])
               /\ BatchCallsOf(tasks', t.run.id) = {}
        /\ \A r \in runs :
             \A u \in BatchCallsOf(tasks', r) \ BatchCallsOf(tasks, r) :
               \E t \in BatchCallsOf(tasks, r) :
                  /\ BatchCallOk(t)
                  /\ u.idx = t.idx + 1
      ]_vars

\* A failure at an id that has ids of the selection before and after it.
C3_Witness ==
    /\ event.alert = "batch failed"
    /\ event.failedAt = 2
    /\ Len(event.run.order) = 3
    /\ selectedIds # <<>>

\* C8: a batch run never has two set_account_enabled calls waiting at once,
\* and the call for order[idx] waits only when the calls for all the ids
\* before it have returned without a failure.
C8_BatchCallsSequential ==
    \A r \in runs :
      /\ Cardinality(BatchCallsOf(tasks, r)) <= 1
      /\ \A t \in BatchCallsOf(tasks, r) :
            /\ CopiesIn(t, tasks) = 1
            /\ t.run.applied = SubSeq(t.run.order, 1, t.idx - 1)

\* Two runs wait at once, one of them for its second id.
C8_Witness ==
    /\ \E t \in BatchCallsOf(tasks, 1) : t.idx = 2
    /\ BatchCallsOf(tasks, 2) # {}

\* C9: the answer to the last set_account_enabled of a batch run whose calls
\* all succeeded is followed by get_auth_accounts, with no call of the run
\* left; and when that get_auth_accounts has answered (or failed) the
\* selection is empty.
C9_SuccessRefetchesAndClears ==
    [][ \A t \in BagToSet(tasks) :
          /\ (BatchCallOk(t) /\ t.idx = Len(t.run.order)) =>
                /\ FetchAccountsCall(t.cl, "batch", Applied(t)) \in BagToSet(tasks')
                /\ Applied(t).applied = t.run.order
                /\ BatchCallsOf(tasks', t.run.id) = {}
                /\ \A i \in DOMAIN t.run.order :
                       EnabledAt(srvAccounts', t.run.order[i]) = t.run.enabled
          /\ (t.op = "get_auth_accounts" /\ t.then = "batch"
                 /\ (FetchAccountsOk(t) \/ FetchAccountsFail(t))) =>
                /\ selectedIds' = <<>>
                /\ t.run.applied = t.run.order
                /\ event'.alert = None
      ]_vars

\* A run over the three accounts has ended without a failure.
C9_Witness ==
    /\ event.step \in {"handleBatchEnable", "handleBatchDisable"}
    /\ event.alert = None
    /\ Len(event.run.order) = 3

----------------------------------------------------------------------------
(* The auto-refresh timer *)

\* C10: at most one auto-refresh interval is installed, and none while the
\* account list of the page is empty.
C10_NoOrphanedTimer ==
    /\ BagCardinality(quotaTimers) <= 1
    /\ accounts = <<>> => quotaTimers = EmptyBag

----------------------------------------------------------------------------
(* Login polling *)

\* C4: the polling interval runs every 2000 ms with the closure of the
\* render in which the login became pending, so a tick compares what
\* get_auth_accounts returns with the list of before the login.  A
\* fetchAccounts of a render with a pending login that is answered by a list
\* with a new id ends the polling in that step.  The browser handoff sets a
\* timeout of 60000 ms; a timeout that fires ends the polling and shows no
\* alert; and polling with a timeout pending always ends.
C4_PollingTerminates ==
    /\ [][ /\ \A t \in BagToSet(tasks) :
                 (/\ t.op = "get_auth_accounts"
                  /\ t.cl.login # None
                  /\ FetchAccountsOk(t)
                  /\ IdsOf(srvAccounts) \ IdsOf(t.cl.accounts) # {}) =>
                     loginInProgress' = None /\ pollTimer' = <<>>
           /\ \A t \in BagToSet(tasks) :
                 (t.op = "open" /\ OpenOk(t)) =>
                     /\ BagCardinality(loginTimeouts') = BagCardinality(loginTimeouts) + 1
                     /\ \A q \in BagToSet(loginTimeouts') : q.afterMs = 60000
           /\ BagCardinality(loginTimeouts') < BagCardinality(loginTimeouts) =>
                 loginInProgress' = None /\ pollTimer' = <<>> /\ event'.alert = None
         ]_vars
    /\ [](pollTimer # <<>> =>
             /\ loginInProgress # None
             /\ pollTimer[1].everyMs = 2000
             /\ pollTimer[1].cl.login = loginInProgress)
    /\ (pollTimer # <<>> /\ loginTimeouts # EmptyBag) ~> (pollTimer = <<>>)

\* After the handoff, a poll has seen the new account and ended the polling
\* while the timeout is still to fire.
C4_Witness ==
    /\ event.step = "fetchAccounts"
    /\ accounts # <<>>
    /\ loginInProgress = None
    /\ pollTimer = <<>>
    /\ loginTimeouts # EmptyBag

----------------------------------------------------------------------------
(* Every RemoteService call of the page, one handler at a time *)

CallsDirectory == {d \in Directory : d.id \in {"k2"}}

InitCalls == InitPage(<< Account(CHOOSE d \in Directory : d.id = "g1", TRUE) >>)

NextCalls ==
    \/ \E t \in BagToSet(tasks) : FetchAccountsOk(t)
    \/ \E t \in BagToSet(tasks) : FetchAccountsFail(t)
    \/ \E t \in BagToSet(tasks) : CachedFail(t)
    \/ \E t \in BagToSet(tasks) : SettingsFail(t)
    \/ \E t \in BagToSet(tasks) : QuotaFail(t)
    \/ tasks = EmptyBag /\ \E a \in Range(accounts) : ClickQuotaRefresh(a)
    \/ tasks = EmptyBag /\ ClickAddAccount
    \/ tasks = EmptyBag /\ accounts = srvAccounts /\ Len(accounts) = 1 /\ ClickProvider("google")
    \/ \E t \in BagToSet(tasks), running \in BOOLEAN : GetServerStatusOk(t, running)
    \/ \E t \in BagToSet(tasks) : StartServerOk(t)
    \/ \E t \in BagToSet(tasks) : ServerSettled(t)
    \/ \E t \in BagToSet(tasks) : StartOauthOk(t, <<"o", "k">>)
    \/ \E t \in BagToSet(tasks) : StartLoginCatch(t)
    \/ \E t \in BagToSet(tasks) : LoginSyncOk(t)
    \/ PollTick
    \/ tasks = EmptyBag /\ TypeProjectId(<<"p">>)
    \/ HandleProjectConfirm
    \/ \E t \in BagToSet(tasks) : ProjectSaveOk(t)
    \/ \E t \in BagToSet(tasks) : ProjectSaveFail(t)
    \/ HandleProjectCancel
    \/ tasks = EmptyBag /\ HandleDelete("k2")
    \/ \E t \in BagToSet(tasks) : DeleteOk(t)
    \/ \E t \in BagToSet(tasks) : DeleteFail(t)
    \/ tasks = EmptyBag /\ ToggleSelectAll
    \/ tasks = EmptyBag /\ \E enabled \in BOOLEAN : HandleBatch(enabled, {1})
    \/ \E t \in BagToSet(tasks) : BatchCallOk(t)
    \/ \E t \in BagToSet(tasks) : BatchCallFail(t)
    \/ tasks = EmptyBag /\ OpenApiKeyModal("glm")
    \/ CloseApiKeyModal
    \/ \E apiKeyInput \in ApiKeyTexts : HandleSaveApiKey(apiKeyInput)
    \/ \E t \in BagToSet(tasks) : SaveApiKeyOk(t)
    \/ \E t \in BagToSet(tasks) : SaveApiKeyFail(t)
    \/ tasks = EmptyBag /\ \E a \in Range(accounts) : HandleToggleEnabled(a)
    \/ \E t \in BagToSet(tasks) : ToggleOk(t)
    \/ \E t \in BagToSet(tasks) : ToggleFail(t)
    \/ tasks = EmptyBag /\ HandleExport
    \/ \E t \in BagToSet(tasks) : ExportOk(t)
    \/ \E t \in BagToSet(tasks) : ExportFail(t)
    \/ tasks = EmptyBag /\ HandleImport
    \/ \E t \in BagToSet(tasks), file \in CallsDirectory : ImportOk(t, file)
    \/ \E t \in BagToSet(tasks) : ImportFail(t)

SpecCalls == InitCalls /\ [][NextCalls]_vars

----------------------------------------------------------------------------
(* The auto-refresh effect while accounts come and go *)

\* Accounts of providers without a quota: the effect reads the length alone.
TimerDirectory == {d \in Directory : d.id \in {"k2"}}

InitTimer == InitPage(<< Account(CHOOSE d \in Directory : d.id = "k1", TRUE) >>)

NextTimer ==
    \/ \E t \in BagToSet(tasks) : FetchAccountsOk(t)
    \/ \E t \in BagToSet(tasks) : FetchAccountsFail(t)
    \/ Outstanding("get_auth_accounts", tasks) = 0 /\ HandleRefresh
    \/ \E t \in BagToSet(tasks) : CachedFail(t)
    \/ \E t \in BagToSet(tasks), m \in RefreshIntervals : SettingsOk(t, m)
    \/ \E t \in BagToSet(tasks) : SettingsFail(t)
    \/ \E d \in TimerDirectory : RemoteAdd(d)
    \/ tasks = EmptyBag /\ \E id \in AccountIds : HandleDelete(id)
    \/ \E t \in BagToSet(tasks) : DeleteOk(t)
    \/ \E t \in BagToSet(tasks) : DeleteFail(t)

SpecTimer == InitTimer /\ [][NextTimer]_vars

----------------------------------------------------------------------------
(* The load of the cached quotas, record by record *)

LoadDirectory == {d \in Directory : d.id \in {"g2"}}

\* The raw provider tags an account or a cached record may carry.
RawTags == {"gemini", "google", "codex", "openai", "antigravity", "kiro", "kimi", "glm"}

LoadIds == {"g1", "a1"}

\* Well-formed records tagged "gemini", "google" and "antigravity", and a
\* record whose quota_data does not parse.
LoadRecords ==
    { [provider |-> "gemini", quota_data |-> Serialize([last_updated |-> 0, is_error |-> FALSE])],
      [provider |-> "google", quota_data |-> Serialize([last_updated |-> 0, is_error |-> FALSE])],
      [provider |-> "antigravity", quota_data |-> Serialize([last_updated |-> 0, is_error |-> FALSE])],
      [provider |-> "gemini", quota_data |-> <<"garbage">>] }

\* The answers of get_cached_quotas: a record per account id, in any order.
CachedEntries ==
    UNION { { e \in [1 .. n -> [accountId : LoadIds, cache : LoadRecords]] :
                \A i, j \in 1 .. n : e[i].accountId = e[j].accountId => i = j }
            : n \in 0 .. Cardinality(LoadIds) }

InitLoad == InitPage(<< Account(CHOOSE d \in Directory : d.id = "g1", TRUE) >>)

NextLoad ==
    \/ \E t \in BagToSet(tasks) : FetchAccountsOk(t)
    \/ \E t \in BagToSet(tasks) : FetchAccountsFail(t)
    \/ tasks = EmptyBag /\ HandleRefresh
    \/ \E t \in BagToSet(tasks) : QuotaFail(t)
    \/ \E t \in BagToSet(tasks), entries \in CachedEntries : CachedOkInOrder(t, entries)
    \/ \E t \in BagToSet(tasks) : CachedFail(t)
    \/ \E t \in BagToSet(tasks) : SettingsFail(t)
    \/ \E d \in LoadDirectory : RemoteAdd(d)

SpecLoad == InitLoad /\ [][NextLoad]_vars

----------------------------------------------------------------------------
(* Polling while accounts are added and deleted *)

\* Accounts of providers without a quota: the diff reads the ids alone.
DiffDirectory == {d \in Directory : d.id \in {"k1", "k2"}}

InitDiff == InitPage(<< Account(CHOOSE d \in Directory : d.id = "k1", TRUE) >>)

NextDiff ==
    \/ \E t \in BagToSet(tasks) : FetchAccountsOk(t)
    \/ \E t \in BagToSet(tasks) : FetchAccountsFail(t)
    \/ \E t \in BagToSet(tasks) : CachedFail(t)
    \/ \E t \in BagToSet(tasks) : SettingsFail(t)
    \/ tasks = EmptyBag /\ ClickAddAccount
    \/ tasks = EmptyBag /\ ClickProvider("google")
    \/ \E t \in BagToSet(tasks) : GetServerStatusOk(t, TRUE)
    \/ \E t \in BagToSet(tasks), authUrl \in {a \in AuthAnswers : IsUrl(a)} :
          StartOauthOk(t, authUrl)
    \/ \E t \in BagToSet(tasks) : OpenOk(t)
    \/ \E t \in BagToSet(tasks) : StartLoginCatch(t)
    \/ \E q \in BagToSet(loginTimeouts) : LoginTimeoutFires(q)
    \/ PollTick
    \/ \E d \in DiffDirectory : RemoteAdd(d)
    \/ tasks = EmptyBag /\ \E id \in AccountIds : HandleDelete(id)
    \/ \E t \in BagToSet(tasks) : DeleteOk(t)
    \/ \E t \in BagToSet(tasks) : DeleteFail(t)

SpecDiff == InitDiff /\ [][NextDiff]_vars

----------------------------------------------------------------------------
(* Accounts that appear in the list of the page: a page that finds one gemini
   account at its start, on which a login with "antigravity" is started and
   completed by start_oauth_login in the backend.  Every call answers in the
   end and every installed timer ticks. *)

AppearDirectory == {d \in Directory : d.id \in {"a1"}}

AppearSnapshots == {r \in QuotaSnapshots : ~r.is_error}

InitAppear == InitPage(<< Account(CHOOSE d \in Directory : d.id = "g1", TRUE) >>)

\* The steps of the page and of RemoteService that need no user.
AppearAnswers ==
    \/ \E t \in BagToSet(tasks) : FetchAccountsOk(t)
    \/ \E t \in BagToSet(tasks) : FetchAccountsFail(t)
    \/ \E t \in BagToSet(tasks) : CachedFail(t)
    \/ \E t \in BagToSet(tasks) : SettingsOk(t, 1)
    \/ \E t \in BagToSet(tasks) : SettingsFail(t)
    \/ \E t \in BagToSet(tasks), r \in AppearSnapshots : QuotaOk(t, r)
    \/ \E q \in BagToSet(quotaTimers) : AutoRefreshTick(q)
    \/ \E t \in BagToSet(tasks) : GetServerStatusOk(t, TRUE)
    \/ \E t \in BagToSet(tasks) : StartOauthOk(t, <<"o", "k">>)
    \/ \E t \in BagToSet(tasks) : LoginSyncOk(t)
    \/ PollTick

NextAppear ==
    \/ AppearAnswers
    \/ tasks = EmptyBag /\ ClickAddAccount
    \/ tasks = EmptyBag /\ ClickProvider("antigravity")
    \/ \E d \in AppearDirectory : RemoteAdd(d)

SpecAppear == InitAppear /\ [][NextAppear]_vars /\ WF_vars(AppearAnswers)

----------------------------------------------------------------------------
(* Login attempts with two providers, one after the other: each is started
   when no call is waiting for its answer and ends through browser handoff
   and polling, through the synchronous completion, through the 60 s timeout
   or through a failure. *)

InitProviders == InitPage(<<>>)

NextProviders ==
    \/ \E t \in BagToSet(tasks) : FetchAccountsOk(t)
    \/ \E t \in BagToSet(tasks) : FetchAccountsFail(t)
    \/ \E t \in BagToSet(tasks) : CachedFail(t)
    \/ \E t \in BagToSet(tasks) : SettingsFail(t)
    \/ \E t \in BagToSet(tasks) : QuotaFail(t)
    \/ tasks = EmptyBag /\ ClickAddAccount
    \/ tasks = EmptyBag /\ \E provider \in LoginProviders : ClickProvider(provider)
    \/ \E t \in BagToSet(tasks) : GetServerStatusOk(t, TRUE)
    \/ \E t \in BagToSet(tasks), authUrl \in AuthAnswers : StartOauthOk(t, authUrl)
    \/ \E t \in BagToSet(tasks) : OpenOk(t)
    \/ \E t \in BagToSet(tasks) : StartLoginCatch(t)
    \/ \E t \in BagToSet(tasks) : LoginSyncOk(t)
    \/ \E q \in BagToSet(loginTimeouts) : LoginTimeoutFires(q)
    \/ PollTick
    \/ \E d \in LoginDirectory : RemoteAdd(d)
    \/ HandleProjectCancel

SpecProviders == InitProviders /\ [][NextProviders]_vars

----------------------------------------------------------------------------
(* The selection while accounts are deleted *)

\* Accounts of providers without a quota: the selection reads the ids alone.
SelectAccounts ==
    << Account(CHOOSE d \in Directory : d.id = "k1", TRUE),
       Account(CHOOSE d \in Directory : d.id = "k2", TRUE) >>

InitSelect == InitPage(SelectAccounts)

NextSelect ==
    \/ \E t \in BagToSet(tasks) : FetchAccountsOk(t)
    \/ \E t \in BagToSet(tasks) : FetchAccountsFail(t)
    \/ \E t \in BagToSet(tasks) : CachedFail(t)
    \/ \E t \in BagToSet(tasks) : SettingsFail(t)
    \/ tasks = EmptyBag /\ \E id \in AccountIds : ToggleSelect(id)
    \/ tasks = EmptyBag /\ ToggleSelectAll
    \/ tasks = EmptyBag /\ \E id \in AccountIds : HandleDelete(id)
    \/ \E t \in BagToSet(tasks) : DeleteOk(t)
    \/ \E t \in BagToSet(tasks) : DeleteFail(t)
    \/ tasks = EmptyBag /\ \E enabled \in BOOLEAN : HandleBatch(enabled, {1})
    \/ \E t \in BagToSet(tasks) : BatchCallOk(t)
    \/ \E t \in BagToSet(tasks) : BatchCallFail(t)

SpecSelect == InitSelect /\ [][NextSelect]_vars

----------------------------------------------------------------------------
(* Login *)

\* C1: at most one startLogin is in flight: no startLogin is waiting for
\* get_server_status, start_server, start_oauth_login, the browser or
\* get_auth_accounts while another one is.
C1_OneLoginInFlight == LoginFlowCount(tasks) <= 1

----------------------------------------------------------------------------
(* The project prompt *)

\* C6: when the get_auth_accounts of a "google" login that completed in the
\* backend returns a gemini account whose id the page did not list when the
\* login was started, the prompt is opened, with an empty input, for a gemini
\* account that is in the returned list and was not listed before.
C6_PromptForNewGemini ==
    [][ \A t \in BagToSet(tasks) :
          (/\ t.op = "get_auth_accounts"
           /\ t.then = "startLogin"
           /\ t.provider = "google"
           /\ LoginSyncOk(t)
           /\ \E a \in Range(srvAccounts) :
                 a.provider = "gemini" /\ a.id \notin IdsOf(t.cl.accounts)) =>
              /\ showProjectPrompt'
              /\ projectIdInput' = <<>>
              /\ pendingGeminiAccountId' \in IdsOf(srvAccounts) \ IdsOf(t.cl.accounts)
              /\ ProviderOfId(pendingGeminiAccountId') = "gemini"
      ]_vars

\* The prompt was opened for g2 by a login started when the page listed g1,
\* which comes first in the list.
C6_Witness ==
    /\ "prompted" \in DOMAIN event
    /\ event.prompted
    /\ "g1" \in event.beforeIds
    /\ accounts # <<>> /\ accounts[1].id = "g1"
    /\ pendingGeminiAccountId = "g2"
    /\ showProjectPrompt

\* C7: the confirm button pressed with an input made of white space only (or
\* of nothing) leaves the prompt open, the pending account id, the input and
\* RemoteService as they were, leaves no call waiting that was not, and shows
\* the alert that asks for a project id.
C7_EmptyProjectIdRejected ==
    [][ (/\ HandleProjectConfirm
         /\ \A i \in DOMAIN projectIdInput : projectIdInput[i] \in {" ", "\t"}) =>
            /\ showProjectPrompt'
            /\ pendingGeminiAccountId' = pendingGeminiAccountId
            /\ projectIdInput' = projectIdInput
            /\ tasks' = tasks
            /\ srvProjects' = srvProjects
            /\ event' = Alert("handleProjectConfirm", "project id required")
      ]_vars

\* The alert was shown for an input of white space, for the account g2.
C7_Witness ==
    /\ event = Alert("handleProjectConfirm", "project id required")
    /\ projectIdInput # <<>>
    /\ showProjectPrompt
    /\ pendingGeminiAccountId = "g2"

\* C11: the polling timer is installed only while a login is pending (with
\* loginInProgress cleared no polling timer is active), and at most one polling
\* timer exists at any time.
C11_PollingOnlyWhilePending ==
    /\ Len(pollTimer) <= 1
    /\ pollTimer # <<>> => loginInProgress # None

\* The second login of a behaviour polls (the timer of the first was cleared
\* and a new one installed) while the timeout of the first is still pending.
C11_Witness ==
    /\ logins = 2
    /\ pollTimer # <<>>
    /\ loginInProgress # None
    /\ loginTimeouts # EmptyBag

\* C12: when get_server_status, start_server, start_oauth_login, the opening
\* of the browser or the re-fetch of the accounts fails, the error is shown in
\* an alert, loginInProgress is cleared, and the attempt calls RemoteService
\* no more: its call is gone, no call of startLogin is issued in its place and
\* no timeout is scheduled.
C12_FailureEndsAttempt ==
    [][ \A t \in LoginFlows(tasks) :
          (t.op # "setTimeout" /\ StartLoginCatch(t)) =>
             /\ event'.alert = "login failed"
             /\ loginInProgress' = None
             /\ LoginFlows(tasks') \subseteq LoginFlows(tasks)
             /\ LoginFlowCount(tasks') = LoginFlowCount(tasks) - 1
             /\ loginTimeouts' = loginTimeouts
      ]_vars

\* The last of the calls has failed: the re-fetch of the accounts, after
\* start_oauth_login completed the login in the backend.
C12_Witness ==
    /\ event.step = "startLogin"
    /\ event.alert = "login failed"
    /\ event.failedOp = "get_auth_accounts"
    /\ loginInProgress = None
    /\ LoginFlows(tasks) = {}

\* C13: when start_oauth_login answers with the empty string, the browser is
\* not opened, the "no authorization URL" error is shown, loginInProgress is
\* cleared, and nothing of the attempt stays scheduled: no polling timer and
\* no timeout that can change the login state later.
C13_EmptyAnswerLeavesNothing ==
    [][ \A t \in BagToSet(tasks) :
          StartOauthOk(t, <<>>) =>
             /\ event'.alert = "no auth url"
             /\ loginInProgress' = None
             /\ \A u \in BagToSet(tasks') : u.op # "open"
             /\ pollTimer' = <<>>
             /\ loginTimeouts' = loginTimeouts
      ]_vars

\* C14: after a login that start_oauth_login completed in the backend,
\* loginInProgress is cleared in the step that opens the project prompt (no
\* login is pending while the prompt is shown), and no step of the project-id
\* subflow (confirm, the answer or the failure of set_gemini_project_id,
\* cancel) puts a login into the pending state.
C14_PromptNeverPending ==
    /\ [](showProjectPrompt => loginInProgress = None)
    /\ [][ (\/ HandleProjectConfirm
            \/ HandleProjectCancel
            \/ \E t \in BagToSet(tasks) : ProjectSaveOk(t) \/ ProjectSaveFail(t))
           => (loginInProgress' = None \/ loginInProgress' = loginInProgress)
       ]_vars

\* The synchronous completion opened the prompt, the user confirmed a project
\* id and set_gemini_project_id failed: no login is pending.
C14_Witness ==
    /\ event = Alert("handleProjectConfirm", "save failed")
    /\ logins > 0
    /\ ~showProjectPrompt
    /\ loginInProgress = None

\* C15: handleProjectCancel closes the prompt, clears the pending account id
\* and the pending login marker, and calls RemoteService for nothing: no call
\* is issued, and the account list, the quota cache and the selection are
\* what they were.
C15_CancelFrame ==
    [][ HandleProjectCancel =>
          /\ ~showProjectPrompt'
          /\ pendingGeminiAccountId' = None
          /\ loginInProgress' = None
          /\ tasks' = tasks
          /\ accounts' = accounts
          /\ quotaData' = quotaData
          /\ selectedIds' = selectedIds
          /\ srvAccounts' = srvAccounts /\ srvProjects' = srvProjects
      ]_vars

\* The prompt was opened for an account and a project id was typed into it
\* before the cancel; the page lists accounts.
C15_Witness ==
    /\ event.step = "handleProjectCancel"
    /\ ~showProjectPrompt
    /\ pendingGeminiAccountId = None
    /\ projectIdInput = <<>>
    /\ accounts # <<>>
    /\ logins > 0

\* The set_gemini_project_id calls that have not returned yet.
ProjectCalls(b) == {t \in BagToSet(b) : t.op = "set_gemini_project_id"}

ProjectCallCount(b) == BagCardinality([t \in ProjectCalls(b) |-> CopiesIn(t, b)])

\* p is text without the white space at its two ends.
IsTrimOf(p, text) ==
    \E i, j \in DOMAIN text :
        /\ i <= j
        /\ p = SubSeq(text, i, j)
        /\ text[i] \notin WhiteSpace /\ text[j] \notin WhiteSpace
        /\ \A k \in DOMAIN text : (k < i \/ k > j) => text[k] \in WhiteSpace

\* C16: a confirm with an input that is not blank closes the prompt and calls
\* set_gemini_project_id once, with the account id the prompt was opened for
\* and the input without the white space at its ends; when the call answers
\* or fails the outcome is shown in an alert, the call is not made again and
\* the prompt stays as it is.
C16_ConfirmSavesOnce ==
    [][ /\ (HandleProjectConfirm
             /\ \E i \in DOMAIN projectIdInput : projectIdInput[i] \notin WhiteSpace)
           => /\ pendingGeminiAccountId # None
              /\ ~showProjectPrompt'
              /\ ProjectCallCount(tasks') = ProjectCallCount(tasks) + 1
              /\ \E u \in ProjectCalls(tasks') :
                    /\ tasks' = tasks (+) One(u)
                    /\ u.accountId = pendingGeminiAccountId
                    /\ IsTrimOf(u.projectId, projectIdInput)
        /\ \A t \in ProjectCalls(tasks) :
             (ProjectSaveOk(t) \/ ProjectSaveFail(t)) =>
                /\ event'.alert \in {"project id saved", "save failed"}
                /\ event'.alert = "project id saved" =>
                      srvProjects' = [srvProjects EXCEPT ![t.accountId] = << t.projectId >>]
                /\ event'.alert = "save failed" => srvProjects' = srvProjects
                /\ tasks' = tasks (-) One(t)
                /\ showProjectPrompt' = showProjectPrompt
      ]_vars

\* The prompt was opened for the account the login added, " p" was typed and
\* confirmed, and RemoteService has saved "p" for that account.
C16_Witness ==
    /\ event = Alert("handleProjectConfirm", "project id saved")
    /\ projectIdInput = << " ", "p" >>
    /\ srvProjects["g2"] = << << "p" >> >>
    /\ ~showProjectPrompt
    /\ ProjectCalls(tasks) = {}

\* The quota fetches that have not returned yet, as <<family, account id>>.
QuotaCallsOf(b) ==
    {<<t.family, t.id>> : t \in {u \in BagToSet(b) : "family" \in DOMAIN u}}

\* The fetches refreshAllQuotas owes to a list: one per account of a family.
QuotaCallsFor(list) ==
    {<<FamilyOf(a.provider), a.id>> : a \in {x \in Range(list) : FamilyOf(x.provider) # None}}

\* C17: a tick of the auto-refresh interval requests the quota of every
\* account that is on the account list at the time of the tick, by the
\* account's family, and of no other account: the fetches it issues are for
\* accounts on the list, and after it a fetch is on its way for every account
\* of the list.
C17_TickUsesCurrentList ==
    [][ \A q \in BagToSet(quotaTimers) :
          AutoRefreshTick(q) =>
             /\ QuotaCallsOf(tasks') \ QuotaCallsOf(tasks) \subseteq QuotaCallsFor(accounts)
             /\ QuotaCallsFor(accounts) \subseteq QuotaCallsOf(tasks')
      ]_vars

\* C18, as stated: when a quota fetch of an id completes, by an answer or by
\* an error, the entry of the id is the outcome of that fetch and nothing of
\* the previous entry is left: after an answer the entry is the answer, after
\* a thrown error the previous snapshot is no longer the entry.
C18_CompletionReplacesEntry ==
    [][ \A t \in BagToSet(tasks) :
          /\ \A r \in QuotaSnapshots :
                QuotaOk(t, r) => quotaData'[t.family][t.id] = << r >>
          /\ (QuotaFail(t) /\ quotaData[t.family][t.id] # <<>>)
                => quotaData'[t.family][t.id] # quotaData[t.family][t.id]
      ]_vars

\* C18, amended: when fetch_<family>_quota answers with a snapshot, with
\* is_error set or not, the entry of the id is exactly that snapshot (no field
\* of the previous entry is left); when the call throws, the entry of the id
\* is left as it was.
C18_AnswerReplacesEntry ==
    [][ \A t \in BagToSet(tasks) :
          /\ \A r \in QuotaSnapshots :
                QuotaOk(t, r) => quotaData'[t.family][t.id] = << r >>
          /\ QuotaFail(t) => quotaData'[t.family][t.id] = quotaData[t.family][t.id]
      ]_vars

\* An entry with an error_message was replaced by a snapshot without one.
C18_Witness ==
    /\ event.step = "fetchQuota"
    /\ ~event.threw
    /\ event.previous # <<>>
    /\ "error_message" \in DOMAIN event.previous[1]
    /\ quotaData["gemini"][event.id] = << [last_updated |-> 1, is_error |-> FALSE] >>

\* C19: the completion of a quota fetch of an account, by an answer or by a
\* failure, changes nothing but the entry of that account in the slot of its
\* family and the loading flag of that account in that family: the entries
\* and loading flags of the other accounts, the slots and flags of the other
\* families, the account list and the selection are what they were.
C19_CompletionFrame ==
    [][ \A t \in BagToSet(tasks) :
          (QuotaFail(t) \/ \E r \in QuotaSnapshots : QuotaOk(t, r)) =>
             /\ \A f \in Families, id \in AccountIds :
                   (f # t.family \/ id # t.id) =>
                      /\ quotaData'[f][id] = quotaData[f][id]
                      /\ (id \in quotaLoading'[f]) = (id \in quotaLoading[f])
             /\ t.id \notin quotaLoading'[t.family]
             /\ accounts' = accounts
             /\ selectedIds' = selectedIds
             /\ srvAccounts' = srvAccounts
      ]_vars

\* The fetch of g1 has failed while g2, of the same family, and a1, of another
\* family, have an entry, and the fetch of g2 is still on its way.
C19_Witness ==
    /\ event.step = "fetchQuota"
    /\ event.threw
    /\ event.id = "g1"
    /\ quotaData["gemini"]["g2"] # <<>>
    /\ quotaData["antigravity"]["a1"] # <<>>
    /\ "g2" \in quotaLoading["gemini"]

\* The ids of the directory whose provider tag is of none of the four families.
UnknownIds == {d.id : d \in {x \in Directory : x.provider \in {"kimi", "glm"}}}

\* C20: for an account whose provider tag is of none of the four families
\* (kimi, glm) no quota fetch is ever on its way, no loading flag is ever set
\* and no entry, with an error or without, is ever recorded, whatever
\* fetchAccounts, handleRefresh, refreshAllQuotas and the auto-refresh timer do.
C20_NoQuotaForUnknownFamily ==
    \A id \in UnknownIds :
        /\ \A t \in BagToSet(tasks) : t.op = "fetch_quota" => t.id # id
        /\ \A f \in Families : id \notin quotaLoading[f] /\ quotaData[f][id] = <<>>

\* A tick of an interval installed by a render that listed g1, k1 and k2 has
\* requested the quota of g1, and of g1 only.
C20_Witness ==
    /\ event.step = "autoRefresh"
    /\ event.listed = {"g1", "k1", "k2"}
    /\ event.calls = {"g1"}
    /\ IdsOf(accounts) = {"g1", "k1", "k2"}

\* C21: no operation removes an entry from the quota cache: in every step the
\* ids that have an entry in a slot still have one afterwards, and the entry
\* of a deleted account stays where it is.
C21_CacheOnlyGrows ==
    [][ \A f \in Families, id \in AccountIds :
          quotaData[f][id] # <<>> => quotaData'[f][id] # <<>> ]_vars

\* g1 was deleted: neither RemoteService nor the page lists it, its cached
\* records have been loaded again with an empty answer, and its entry is in
\* the gemini slot all the same.
C21_Witness ==
    /\ srvAccounts = <<>>
    /\ accounts = <<>>
    /\ ~loading
    /\ event.step = "loadCachedQuotas"
    /\ DOMAIN event.cached = {}
    /\ quotaData["gemini"]["g1"] # <<>>

RefreshFetches(b) ==
    {t \in BagToSet(b) : t.op = "get_auth_accounts" /\ t.then = "refresh"}

\* C23: handleRefresh requests no quota fetch before its get_auth_accounts
\* has returned, and when it has returned, with the list or with a failure, a
\* quota fetch is on its way for every account of a family on the refreshed
\* list: each is requested unless its fetch is loading already.
C23_RefreshThenFanOut ==
    [][ /\ HandleRefresh => QuotaCallsOf(tasks') = QuotaCallsOf(tasks)
        /\ \A t \in RefreshFetches(tasks) :
             (FetchAccountsOk(t) \/ FetchAccountsFail(t)) =>
                QuotaCallsFor(accounts') \subseteq QuotaCallsOf(tasks')
      ]_vars

\* No handler of the page is busy.
Idle == ~loading /\ quotaLoading = NoLoading /\ ~apiKeySaving

\* A RemoteService call of the page throws.
CallFails(t) ==
    \/ FetchAccountsFail(t) \/ QuotaFail(t) \/ CachedFail(t) \/ SettingsFail(t)
    \/ StartLoginCatch(t) \/ ProjectSaveFail(t) \/ DeleteFail(t) \/ BatchCallFail(t)
    \/ ToggleFail(t) \/ SaveApiKeyFail(t) \/ ImportFail(t) \/ ExportFail(t)

\* C24: every RemoteService call the page makes is caught where it is issued:
\* a call that throws is over (its continuation is gone, nothing is left
\* waiting in its place), the busy mark of the handler that made it is
\* cleared, and once no call is outstanding no handler is busy, so the page
\* accepts further operations.
C24_FailuresAreCaught ==
    [][ /\ \A t \in BagToSet(tasks) :
            /\ CallFails(t) => CopiesIn(t, tasks') = CopiesIn(t, tasks) - 1
            /\ FetchAccountsFail(t) => ~loading'
            /\ QuotaFail(t) => t.id \notin quotaLoading'[t.family]
            /\ StartLoginCatch(t) => loginInProgress' = None
            /\ SaveApiKeyFail(t) => ~apiKeySaving'
        /\ tasks' = EmptyBag => Idle'
      ]_vars

C24_Witness ==
    /\ event.alert = "save failed" /\ event.step = "handleSaveApiKey"
    /\ showApiKeyModal /\ ~apiKeySaving /\ tasks = EmptyBag /\ Idle

\* C26: a start_oauth_login call is made only by the step in which
\* get_server_status returns "running" or by the step in which the settle
\* delay ends; the settle delay is started only when start_server returns, and
\* start_server is called only when get_server_status returns "not running".
\* A "running" answer calls no start_server, a "not running" answer calls no
\* start_oauth_login before start_server and the delay are over.
C26_ServerBeforeLogin ==
    [][ /\ Outstanding("start_oauth_login", tasks') > Outstanding("start_oauth_login", tasks)
             => \E t \in BagToSet(tasks) : GetServerStatusOk(t, TRUE) \/ ServerSettled(t)
        /\ Outstanding("setTimeout", tasks') > Outstanding("setTimeout", tasks)
             => \E t \in BagToSet(tasks) : StartServerOk(t)
        /\ Outstanding("start_server", tasks') > Outstanding("start_server", tasks)
             => \E t \in BagToSet(tasks) : GetServerStatusOk(t, FALSE)
        /\ \A t \in BagToSet(tasks) :
             /\ GetServerStatusOk(t, TRUE)
                  => Outstanding("start_server", tasks') = Outstanding("start_server", tasks)
             /\ GetServerStatusOk(t, FALSE)
                  => Outstanding("start_oauth_login", tasks')
                        = Outstanding("start_oauth_login", tasks)
      ]_vars

C26_Witness ==
    /\ event.step = "startLogin" /\ "after" \in DOMAIN event
    /\ Outstanding("start_oauth_login", tasks) = 1

\* The gemini accounts of a list, oldest first: RemoteService appends an
\* account when it is added.
GeminiOf(list) == SelectSeq(list, LAMBDA a : a.provider = "gemini")

\* C27: when the synchronous completion of a "google" login finds no new
\* gemini account but gemini accounts exist, the prompt is opened for the
\* gemini account that was added last.
C27_FallbackIsMostRecent ==
    [][ \A t \in BagToSet(tasks) :
          ( /\ LoginSyncOk(t)
            /\ t.provider = "google"
            /\ GeminiOf(srvAccounts) # <<>>
            /\ IdsOf(GeminiOf(srvAccounts)) \subseteq IdsOf(t.cl.accounts) )
          => /\ showProjectPrompt'
             /\ pendingGeminiAccountId'
                   = GeminiOf(srvAccounts)[Len(GeminiOf(srvAccounts))].id
      ]_vars

\* The timers the effect of the current render can still clear.
OwnTimers(timers) == {q \in BagToSet(timers) : q.own}

\* The get_settings calls whose effect has not been cleaned up.
LiveSettings(b) == {t \in BagToSet(b) : t.op = "get_settings" /\ ~t.cleaned}

C29_AliasesEverywhere ==
    [][ /\ \A provider \in RawTags : FamilyOf(ProviderAlias(provider)) = FamilyOf(provider)
        /\ \A t \in BagToSet(tasks) :
             LET entries == IF "entries" \in DOMAIN event' THEN event'.entries ELSE <<>>
             IN  CachedOkInOrder(t, entries) =>
                \A i \in DOMAIN entries :
                   ( /\ JSONParse(entries[i].cache.quota_data) # <<>>
                     /\ FamilyOf(ProviderAlias(entries[i].cache.provider)) # None )
                   => quotaData'[FamilyOf(ProviderAlias(entries[i].cache.provider))]
                                [entries[i].accountId]
                         = JSONParse(entries[i].cache.quota_data)
      ]_vars

\* C30: a record that does not parse is skipped and nothing else: every
\* well-formed record of a known provider in the same answer is in its slot
\* after the load, before or after the malformed one.
C30_MalformedRecordSkipped ==
    [][ \A t \in BagToSet(tasks) :
          LET entries == IF "entries" \in DOMAIN event' THEN event'.entries ELSE <<>>
          IN  CachedOkInOrder(t, entries) =>
             \A i \in DOMAIN entries :
                ( /\ JSONParse(entries[i].cache.quota_data) # <<>>
                  /\ CacheSlot(entries[i].cache.provider) # None )
                => quotaData'[CacheSlot(entries[i].cache.provider)][entries[i].accountId]
                      = JSONParse(entries[i].cache.quota_data)
      ]_vars

\* An answer whose first record is malformed has been loaded: the record
\* after it is in its slot, and the malformed one has left no entry.
C30_Witness ==
    /\ event.step = "loadCachedQuotas" /\ "entries" \in DOMAIN event
    /\ Len(event.entries) = 2
    /\ JSONParse(event.entries[1].cache.quota_data) = <<>>
    /\ event.entries[2].cache.provider = "antigravity"
    /\ quotaData["antigravity"][event.entries[2].accountId] # <<>>
    /\ quotaData["gemini"][event.entries[1].accountId] = <<>>

\* The ids of the list of the render in which the login became pending.
PreLoginIds == IdsOf(pollTimer[1].cl.accounts)

\* C31 (as stated): while a login is polling, the answer to a fetchAccounts
\* ends the login exactly when it lists an id that the pre-login list lacks.
C31_DiffWithPreLoginList ==
    [][ \A t \in BagToSet(tasks) :
          (FetchAccountsOk(t) /\ pollTimer # <<>> /\ t.cl.login # None)
          => ( loginInProgress' = None
                 <=> IdsOf(srvAccounts) \ PreLoginIds # {} )
      ]_vars

\* C31 (amended): while a login is polling, the answer to a fetchAccounts
\* ends the login exactly when the render that called it was waiting for a
\* login and the answer lists an id that the list of that render lacks,
\* whatever the sizes of the two lists; for the calls of the polling interval
\* that list is the pre-login list.
C31_DiffEndsLogin ==
    [][ \A t \in BagToSet(tasks) :
          (FetchAccountsOk(t) /\ pollTimer # <<>>)
          => /\ loginInProgress' = None
                  <=> (t.cl.login # None /\ IdsOf(srvAccounts) \ IdsOf(t.cl.accounts) # {})
             /\ t.cl = pollTimer[1].cl => IdsOf(t.cl.accounts) = PreLoginIds
      ]_vars

\* The login began with k1 listed; the list a poll fetched has the same size
\* with k1 replaced by k2, and the login is over.
C31_Witness ==
    /\ event.step = "fetchAccounts"
    /\ event.prevIds = {"k1"}
    /\ IdsOf(accounts) = {"k2"}
    /\ loginInProgress = None
    /\ pollTimer = <<>>

\* C32: for every account id, the loading flag of its family is set in every
\* state in which a quota fetch for the id is outstanding, and no flag is set
\* for an id without an outstanding call.
C32_FlagWhileOutstanding ==
    \A f \in Families, id \in AccountIds :
        id \in quotaLoading[f] <=> QuotaCall(f, id) \in BagToSet(tasks)

\* C35: the selection holds ids of listed accounts only, and no
\* set_account_enabled call of a batch run is outstanding for an id that the
\* list of the page does not report.
C35_SelectionIsListed ==
    /\ Range(selectedIds) \subseteq IdsOf(accounts)
    /\ \A t \in BagToSet(tasks) :
         (t.op = "set_account_enabled" /\ t.from = "batch")
            => t.run.order[t.idx] \in IdsOf(accounts)


\* C33: the list of the page changes only in a step where a get_auth_accounts
\* call answers successfully, and then it is the list of that answer; a step
\* where get_auth_accounts throws leaves the list as it was.
C33_ListOnlyFromFetch ==
    [][ /\ accounts' # accounts =>
             /\ accounts' = srvAccounts
             /\ \E t \in BagToSet(tasks) : FetchAccountsOk(t) \/ LoginSyncOk(t)
        /\ \A t \in BagToSet(tasks) : FetchAccountsFail(t) => accounts' = accounts
      ]_vars

\* An account disabled at RemoteService is shown disabled after the re-fetch.
C33_Witness ==
    /\ accounts = srvAccounts
    /\ \E i \in 1..Len(accounts) : ~accounts[i].enabled
    /\ tasks = EmptyBag

\* C34: a 60 s timeout that ends a pending login is the timeout of that login:
\* when a timeout fires while a login is pending, startLogin of that login has
\* returned (the browser has the URL and the timeout of line 972 is set), and
\* no timeout of an earlier attempt is pending beside it.
C34_TimeoutEndsOwnAttempt ==
    [][ \A q \in BagToSet(loginTimeouts) :
          (loginInProgress # None /\ LoginTimeoutFires(q)) =>
             /\ LoginFlows(tasks) = {}
             /\ BagCardinality(loginTimeouts) = 1
      ]_vars

\* C36: a loadCachedQuotas that completes never lowers the last_updated of an
\* entry of the quota cache: where a slot had an entry for an id before the
\* answer of get_cached_quotas was merged, the entry it has afterwards is as
\* recent or more recent.
C36_LoadKeepsNewer ==
    [][ event'.step = "loadCachedQuotas" =>
          \A f \in Families, id \in AccountIds :
             (quotaData[f][id] # <<>> /\ quotaData'[f][id] # <<>>) =>
                quotaData'[f][id][1].last_updated >= quotaData[f][id][1].last_updated
      ]_vars

\* C37: the project prompt is shown exactly while a pending gemini account id
\* is set, and handleProjectConfirm never reports that no Gemini account was
\* found.
C37_PromptIffPending ==
    /\ showProjectPrompt <=> pendingGeminiAccountId # None
    /\ event # Alert("handleProjectConfirm", "no gemini account")

\* The prompt is open for the second time: the prompt of the first login was
\* closed, with its pending id, before the second login opened it again.
C37_Witness ==
    /\ logins = 2
    /\ event.step = "startLogin"
    /\ "prompted" \in DOMAIN event /\ event.prompted
    /\ showProjectPrompt
    /\ pendingGeminiAccountId # None

\* A fetch_<family>_quota call for the id is waiting for its answer, or one
\* has answered and left its snapshot in the slot of the family.
QuotaFetched(id) ==
    LET f == FamilyOf(ProviderOfId(id))
    IN  QuotaCall(f, id) \in BagToSet(tasks) \/ quotaData[f][id] # <<>>

\* C38: an account of a known provider family that is in the list of the
\* page gets a quota fetch in the end, with no step of the user: from every
\* state in which the list holds it, a state follows in which a quota fetch
\* for it is outstanding or has answered.
C38_NewAccountIsFetched ==
    \A id \in {"g1", "a1"} : (id \in IdsOf(accounts)) ~> QuotaFetched(id)

\* C39: a step that opens the project prompt is the answer of the
\* get_auth_accounts of the synchronous-completion branch of a login with
\* "google"; with it the call of that attempt is gone and the login is over,
\* so the attempt opens the prompt once.  No other step (browser handoff,
\* polling, the 60 s timeout, a failure) opens it.
C39_PromptOnlyFromGoogleSync ==
    [][ (~showProjectPrompt /\ showProjectPrompt') =>
          \E t \in BagToSet(tasks) :
             /\ t.op = "get_auth_accounts" /\ t.then = "startLogin"
             /\ t.provider = "google"
             /\ LoginSyncOk(t)
             /\ CopiesIn(t, tasks') = CopiesIn(t, tasks) - 1
             /\ LoginFlowCount(tasks') = LoginFlowCount(tasks) - 1
             /\ loginInProgress' = None
      ]_vars

\* The second login, with "google", was completed in the backend and opened
\* the prompt; the first went through browser handoff, its timeout is still
\* pending and it opened nothing.
C39_Witness ==
    /\ logins = 2
    /\ loginTimeouts # EmptyBag
    /\ event.step = "startLogin"
    /\ "prompted" \in DOMAIN event /\ event.prompted
    /\ showProjectPrompt
    /\ loginInProgress = None

========================================================================
